---- MODULE Spec2Model ----
(***************************************************************************)
(* Daylight tracker: the solar time engine.                                *)
(*                                                                         *)
(* The module holds several state machines over one set of variables:      *)
(*   - SpecSun   : getSunData applied to the outputs of the ephemeris      *)
(*                 provider (SunCalc.getTimes / SunCalc.getPosition);      *)
(*   - SpecLRU   : the LRUCache class driven by has / get / set / clear;   *)
(*   - SpecScan  : findUpcomingDaylightMilestones: its first pass, one     *)
(*                 action per iteration of its second pass, and its end;   *)
(*   - SpecDst   : findUpcomingDSTChanges, one action per day scanned;     *)
(*   - SpecMerge : the merged list of upcoming dates;                      *)
(*   - SpecBands : the twilight bands of a day (resolveZone, rotateBands); *)
(*   - SpecMirror: findOppositeDate;                                       *)
(*   - SpecLocal : dateAtLocalInTimezone, one action per iteration;        *)
(*   - SpecZone  : the functions that take a time zone, called once each;  *)
(*   - SpecLoops : the scans and searches side by side, with the sunrise   *)
(*                 and sunset scans and the solstice bisection;            *)
(*   - SpecHours : the sunrise and sunset scans, one action per day;       *)
(*   - SpecBisect: findSolsticeEquinoxMoment, one action per iteration;    *)
(*   - SpecYear  : computeYearData on the calendar of Date;                *)
(*   - SpecDoy   : getDayOfYear on the local midnight of each day;         *)
(*   - SpecResolve, SpecRotate: resolveZone and rotateBands on their own;  *)
(*   - SpecApp   : the settings of App, the load effect, the position      *)
(*                 request and the handlers of the location inputs.        *)
(* A machine leaves the variables of the other machines at their parked    *)
(* values.  A JavaScript Date is the record [day, time]: a day number and   *)
(* the milliseconds since that day's local midnight (so that getTime() of  *)
(* two Dates can be subtracted without leaving 32 bits); an Invalid Date   *)
(* is InvalidDate, null is Null.                                           *)
(***************************************************************************)
EXTENDS Integers, Sequences, FiniteSets, TLC

VARIABLES
    sunIn,      \* getSunData: the provider's answer for the call, or Null
    sunOut,     \* getSunData: the returned SolarDay, or Null before the call
    max,        \* LRUCache._max
    map,        \* LRUCache._map: the entries [key, value] in insertion order
    last,       \* the last LRUCache call: its name, arguments, result and
                \* the cache (with its history) as it was before the call
    touch,      \* history: the keys present, least recently touched first
    stored,     \* history: per key, the value of the latest set not yet
                \* followed by an eviction of the key or a clear
    pending,    \* history: per key hit by a get, the entries present at that
                \* get that were neither evicted nor touched since
    scanIn,     \* findUpcomingDaylightMilestones: its arguments (yearData,
                \* currentDate as its day of the year, latitude, count)
    pc,         \* ... where it is: "first", "second" (pass) or "done"
    offset,     \* ... the loop variable of the second pass
    extremeEvents,   \* ... the pre-scanned extreme events
    milestones,      \* ... the milestones collected / returned
    foundCrossings,  \* ... the keys of the crossings already emitted
    dstIn,      \* findUpcomingDSTChanges: its arguments (currentDate as a day
                \* of the runtime's calendar, timezone, count) and the
                \* runtime's own time zone
    dstPc,      \* ... where it is: "start", "loop" or "done"
    dstOffset,  \* ... the loop variable offset
    prevNoonOffset,  \* ... prevNoonOffset
    transitions,     \* ... the transitions collected / returned
    args,       \* a function called once: its name and arguments
    result,     \* ... what it returned or threw, or Null before the call
    localM,     \* dateAtLocalInTimezone: M, in minutes
    localI,     \* ... the loop variable i
    hoursOffset,     \* findUpcomingSunrise/SunsetMilestones: the loop
                     \* variable offset
    hoursPrev,       \* ... prevHours
    hourMilestones,  \* ... the milestones collected
    bisLow,     \* findSolsticeEquinoxMoment: low, in seconds
    bisHigh,    \* ... high
    bisI,       \* ... the loop variable i
    appState,        \* App: latitude (tenths of a degree), longitude, timezone
    settingsLoaded,  \* App: settingsLoaded
    localStorage,    \* the item stored under STORAGE_KEY, or Null
    geolocation,     \* navigator.geolocation: unsupported, idle, requested,
                     \* answered or failed
    chosen      \* history: per setting, what the user last chose by hand

sunVars == <<sunIn, sunOut>>
lruVars == <<max, map, last, touch, stored, pending>>
scanVars == <<scanIn, pc, offset, extremeEvents, milestones, foundCrossings>>
dstVars == <<dstIn, dstPc, dstOffset, prevNoonOffset, transitions>>
callVars == <<args, result>>
localVars == <<localM, localI>>
hoursVars == <<hoursOffset, hoursPrev, hourMilestones>>
bisectVars == <<bisLow, bisHigh, bisI>>
appVars == <<appState, settingsLoaded, localStorage, geolocation, chosen>>

\* the variables of the machines other than the one that runs
notSun == <<lruVars, scanVars, dstVars, callVars, localVars, hoursVars, bisectVars, appVars>>
notLRU == <<sunVars, scanVars, dstVars, callVars, localVars, hoursVars, bisectVars, appVars>>
notScan == <<sunVars, lruVars, dstVars, callVars, localVars, hoursVars, bisectVars, appVars>>
notDst == <<sunVars, lruVars, scanVars, callVars, localVars, hoursVars, bisectVars, appVars>>
notCall == <<sunVars, lruVars, scanVars, dstVars, localVars, hoursVars, bisectVars, appVars>>
notLocal == <<sunVars, lruVars, scanVars, dstVars, hoursVars, bisectVars, appVars>>
notHours == <<sunVars, lruVars, scanVars, dstVars, localVars, bisectVars, appVars>>
notBisect == <<sunVars, lruVars, scanVars, dstVars, localVars, hoursVars, appVars>>
notApp == <<sunVars, lruVars, scanVars, dstVars, callVars, localVars, hoursVars, bisectVars>>

\* the variables of a machine that is not running
SunParked == sunIn = [null |-> TRUE] /\ sunOut = [null |-> TRUE]
LRUParked ==
    /\ max = 0 /\ map = <<>> /\ last = [null |-> TRUE]
    /\ touch = <<>> /\ stored = [null |-> TRUE] /\ pending = [null |-> TRUE]
ScanParked ==
    /\ scanIn = [null |-> TRUE] /\ pc = "idle" /\ offset = 0
    /\ extremeEvents = <<>> /\ milestones = <<>> /\ foundCrossings = {}
DstParked ==
    /\ dstIn = [null |-> TRUE] /\ dstPc = "idle" /\ dstOffset = 0
    /\ prevNoonOffset = [null |-> TRUE] /\ transitions = <<>>
CallParked == args = [null |-> TRUE] /\ result = [null |-> TRUE]
LocalParked == localM = 0 /\ localI = 0
HoursParked == hoursOffset = 0 /\ hoursPrev = [null |-> TRUE] /\ hourMilestones = <<>>
BisectParked == bisLow = 0 /\ bisHigh = 0 /\ bisI = 0
AppParked ==
    /\ appState = [null |-> TRUE] /\ settingsLoaded = FALSE /\ localStorage = [null |-> TRUE]
    /\ geolocation = "idle" /\ chosen = [null |-> TRUE]

\* the machines other than the one that runs are parked
OnlySun ==
    LRUParked /\ ScanParked /\ DstParked /\ CallParked /\ LocalParked /\ HoursParked /\ BisectParked /\ AppParked
OnlyLRU ==
    SunParked /\ ScanParked /\ DstParked /\ CallParked /\ LocalParked /\ HoursParked /\ BisectParked /\ AppParked
OnlyScan ==
    SunParked /\ LRUParked /\ DstParked /\ CallParked /\ LocalParked /\ HoursParked /\ BisectParked /\ AppParked
OnlyDst ==
    SunParked /\ LRUParked /\ ScanParked /\ CallParked /\ LocalParked /\ HoursParked /\ BisectParked /\ AppParked
OnlyCall ==
    SunParked /\ LRUParked /\ ScanParked /\ DstParked /\ LocalParked /\ HoursParked /\ BisectParked /\ AppParked
OnlyLocal == SunParked /\ LRUParked /\ ScanParked /\ DstParked /\ HoursParked /\ BisectParked /\ AppParked
OnlyHours == SunParked /\ LRUParked /\ ScanParked /\ DstParked /\ LocalParked /\ BisectParked /\ AppParked
OnlyBisect == SunParked /\ LRUParked /\ ScanParked /\ DstParked /\ LocalParked /\ HoursParked /\ AppParked
OnlyApp ==
    /\ SunParked /\ LRUParked /\ ScanParked /\ DstParked /\ CallParked
    /\ LocalParked /\ HoursParked /\ BisectParked

(***************************************************************************)
(* Dates                                                                   *)
(***************************************************************************)
Null == [null |-> TRUE]
InvalidDate == [invalid |-> TRUE]
DateOf(day, ms) == [day |-> day, time |-> ms]

\* isNaN(d.getTime())
isNaN(d) == d = InvalidDate

\* 24 * 60 * 60 * 1000
DayMs == 24 * 60 * 60 * 1000
HourMs == 1000 * 60 * 60
MinuteMs == 60 * 1000

\* a.getTime() - b.getTime()
TimeDiff(a, b) == (a.day - b.day) * DayMs + (a.time - b.time)

(***************************************************************************)
(* The ephemeris provider.  SunCalc.getTimes answers with solarNoon and    *)
(* with sunrise / sunset placed one hour-angle arc before / after it; an   *)
(* arc that does not exist (the sun does not cross the horizon) gives an   *)
(* Invalid Date.  The arc is at most half a day.  NoArc stands for the     *)
(* missing arc.  The model lets the two arcs differ and lets one of them   *)
(* be missing alone, which is more than SunCalc does.                      *)
(***************************************************************************)
NoArc == [defined |-> FALSE, ms |-> 0]
Arc(ms) == [defined |-> TRUE, ms |-> ms]

ArcSamples ==
    {NoArc} \cup { Arc(ms) : ms \in {0, 1, 3 * HourMs, (DayMs \div 2) - 1, DayMs \div 2} }

\* altitude of the sun at solar noon, in degrees (sign matters only)
AltitudeSamples == {-5, 0, 5}

\* the calendar days getSunData is asked about (day numbers)
MaxDate == 2
DateSamples == 1..MaxDate

SunCalcTimes(date, riseArc, setArc) ==
    LET solarNoon == DayMs \div 2
    IN  [ solarNoon |-> DateOf(date, solarNoon),
          sunrise |-> IF riseArc = NoArc THEN InvalidDate
                      ELSE DateOf(date, solarNoon - riseArc.ms),
          sunset  |-> IF setArc = NoArc THEN InvalidDate
                      ELSE DateOf(date, solarNoon + setArc.ms) ]

(***************************************************************************)
(* getSunData(date, latitude, longitude): times is SunCalc.getTimes(noon,  *)
(* latitude, longitude) and altitude the altitude SunCalc.getPosition      *)
(* gives at times.solarNoon.                                               *)
(***************************************************************************)
\* getSunData with the times nulled on a polar night only
getSunData_KeepsTimesOnPolarDay(date, times, altitude) ==
    LET sunrise == times.sunrise
        sunset == times.sunset
        polar == isNaN(sunrise) \/ isNaN(sunset)
        isPolarDay == polar /\ altitude > 0
        isPolarNight == polar /\ ~(altitude > 0)
        daylight == IF polar
                    THEN IF altitude > 0 THEN 24 * 60 * 60 * 1000 ELSE 0
                    ELSE TimeDiff(sunset, sunrise)
    IN  [ date |-> date,
          sunrise |-> IF isPolarNight THEN Null ELSE sunrise,
          sunset |-> IF isPolarNight THEN Null ELSE sunset,
          solarNoon |-> times.solarNoon,
          daylight |-> daylight,
          maxAltitude |-> altitude,
          isPolarDay |-> isPolarDay,
          isPolarNight |-> isPolarNight ]

\* getSunData with the noon altitude compared by >= 0
getSunData_AltitudeAtLeastZero(date, times, altitude) ==
    LET sunrise == times.sunrise
        sunset == times.sunset
        polar == isNaN(sunrise) \/ isNaN(sunset)
        isPolarDay == polar /\ altitude >= 0
        isPolarNight == polar /\ ~(altitude >= 0)
        daylight == IF polar
                    THEN IF altitude >= 0 THEN 24 * 60 * 60 * 1000 ELSE 0
                    ELSE TimeDiff(sunset, sunrise)
    IN  [ date |-> date,
          sunrise |-> IF isPolarNight THEN Null
                      ELSE IF isPolarDay THEN Null ELSE sunrise,
          sunset |-> IF isPolarNight THEN Null
                     ELSE IF isPolarDay THEN Null ELSE sunset,
          solarNoon |-> times.solarNoon,
          daylight |-> daylight,
          maxAltitude |-> altitude,
          isPolarDay |-> isPolarDay,
          isPolarNight |-> isPolarNight ]

getSunData(date, times, altitude) ==
    LET sunrise == times.sunrise
        sunset == times.sunset
        polar == isNaN(sunrise) \/ isNaN(sunset)
        isPolarDay == polar /\ altitude > 0
        isPolarNight == polar /\ ~(altitude > 0)
        daylight == IF polar
                    THEN IF altitude > 0 THEN 24 * 60 * 60 * 1000 ELSE 0
                    ELSE TimeDiff(sunset, sunrise)
    IN  [ date |-> date,
          sunrise |-> IF isPolarNight THEN Null
                      ELSE IF isPolarDay THEN Null ELSE sunrise,
          sunset |-> IF isPolarNight THEN Null
                     ELSE IF isPolarDay THEN Null ELSE sunset,
          solarNoon |-> times.solarNoon,
          daylight |-> daylight,
          maxAltitude |-> altitude,
          isPolarDay |-> isPolarDay,
          isPolarNight |-> isPolarNight ]

(***************************************************************************)
(* LRUCache.  A JavaScript Map is the sequence of its entries in insertion *)
(* order; keys and values are tagged so that undefined is neither.         *)
(***************************************************************************)
Undefined == [undefined |-> TRUE]
Key(i) == [key |-> i]
Val(i) == [val |-> i]

MaxKey == 3
MaxCap == 2
Keys == { Key(i) : i \in 1..MaxKey }
Values == { Val(1), Val(2) }

KeysOf(m) == { m[i].key : i \in DOMAIN m }

\* Map.prototype.has
MapHas(m, k) == \E i \in DOMAIN m : m[i].key = k

\* Map.prototype.get
MapGet(m, k) ==
    IF MapHas(m, k) THEN m[CHOOSE i \in DOMAIN m : m[i].key = k].value
    ELSE Undefined

\* Map.prototype.delete
MapDelete(m, k) == SelectSeq(m, LAMBDA e : e.key # k)

\* Map.prototype.set: an existing key keeps its place, a new key goes last
MapSet(m, k, v) ==
    IF MapHas(m, k)
    THEN [ i \in DOMAIN m |-> IF m[i].key = k THEN [key |-> k, value |-> v] ELSE m[i] ]
    ELSE Append(m, [key |-> k, value |-> v])

\* map.keys().next().value
FirstKey(m) == IF m = <<>> THEN Undefined ELSE m[1].key

\* LRUCache.has(key): the result
LRUHas(m, k) == MapHas(m, k)

\* get answering with the oldest entry's value
LRUGetResult_OldestValue(m, k) == IF ~MapHas(m, k) THEN Undefined ELSE m[1].value

\* LRUCache.get(key): the result
LRUGetResult(m, k) == IF ~MapHas(m, k) THEN Undefined ELSE MapGet(m, k)

\* get without the move to the end
LRUGetMap_NoRefresh(m, k) == m

\* get deleting the entry and not putting it back
LRUGetMap_DropsOnHit(m, k) == IF ~MapHas(m, k) THEN m ELSE MapDelete(m, k)

\* LRUCache.get(key): the map after the call
LRUGetMap(m, k) ==
    IF ~MapHas(m, k) THEN m
    ELSE LET value == MapGet(m, k)
         IN  MapSet(MapDelete(m, k), k, value)

\* set evicting the newest entry instead of the first
LRUSetMap_EvictsNewest(m, mx, k, v) ==
    LET m1 == IF MapHas(m, k) THEN MapDelete(m, k)
              ELSE IF Len(m) >= mx /\ m # <<>> THEN MapDelete(m, m[Len(m)].key)
              ELSE m
    IN  MapSet(m1, k, v)

\* set without the delete of an existing key: the entry keeps its place
LRUSetMap_KeepsPlace(m, mx, k, v) ==
    LET m1 == IF MapHas(m, k) THEN m
              ELSE IF Len(m) >= mx THEN MapDelete(m, FirstKey(m))
              ELSE m
    IN  MapSet(m1, k, v)

\* LRUCache.set(key, value): the map after the call
LRUSetMap(m, mx, k, v) ==
    LET m1 == IF MapHas(m, k) THEN MapDelete(m, k)
              ELSE IF Len(m) >= mx THEN MapDelete(m, FirstKey(m))
              ELSE m
    IN  MapSet(m1, k, v)

\* LRUCache.clear(): the map after the call
LRUClearMap(m) == <<>>

\* LRUCache.size
LRUSize(m) == Len(m)

(***************************************************************************)
(* The history kept beside the cache.  It is written from what a call is   *)
(* and what the cache lost, never from the order of the map.               *)
(***************************************************************************)
RemoveAll(seq, ks) == SelectSeq(seq, LAMBDA k : k \notin ks)

\* the keys a call removed from the cache
Lost(before, after) == KeysOf(before) \ KeysOf(after)

\* touch after a call that touched the keys in touched (at most one)
TouchAfter(t, lost, touched) ==
    LET kept == RemoveAll(t, lost \cup touched)
    IN  IF touched = {} THEN kept
        ELSE Append(kept, CHOOSE k \in touched : TRUE)

NoPending == [active |-> FALSE, others |-> {}]

\* pending after a call: hit is the set holding the key a get hit (or {})
PendingAfter(p, before, lost, touched, hit) ==
    [ k \in Keys |->
        IF k \in lost THEN NoPending
        ELSE IF k \in hit
             THEN [active |-> TRUE, others |-> KeysOf(before) \ {k}]
             ELSE [active |-> p[k].active,
                   others |-> p[k].others \ (lost \cup touched)] ]

Snapshot == [map |-> map, touch |-> touch, stored |-> stored, pending |-> pending]

\* the key the call just before this one hit with get, else Undefined
HitOf(l) ==
    IF l.op = "get" /\ l.ret # Undefined THEN l.key ELSE Undefined

InitCache(capacities) ==
    /\ max \in capacities
    /\ map = <<>>
    /\ touch = <<>>
    /\ stored = [k \in Keys |-> Undefined]
    /\ pending = [k \in Keys |-> NoPending]
    /\ last = [op |-> "new", key |-> Undefined, value |-> Undefined,
               ret |-> Undefined, prevHit |-> Undefined,
               before |-> [map |-> <<>>, touch |-> <<>>,
                           stored |-> [k \in Keys |-> Undefined],
                           pending |-> [k \in Keys |-> NoPending]]]
    /\ OnlyLRU

Has(k) ==
    /\ last' = [op |-> "has", key |-> k, value |-> Undefined,
                ret |-> [bool |-> LRUHas(map, k)], prevHit |-> HitOf(last),
                before |-> Snapshot]
    /\ UNCHANGED <<max, map, touch, stored, pending, notLRU>>

Get(k) ==
    LET ret == LRUGetResult(map, k)
        after == LRUGetMap(map, k)
        lost == Lost(map, after)
        touched == IF MapHas(map, k) THEN {k} ELSE {}
    IN  /\ map' = after
        /\ touch' = TouchAfter(touch, lost, touched)
        /\ stored' = [j \in Keys |-> IF j \in lost THEN Undefined ELSE stored[j]]
        /\ pending' = PendingAfter(pending, map, lost, touched, touched)
        /\ last' = [op |-> "get", key |-> k, value |-> Undefined, ret |-> ret,
                    prevHit |-> HitOf(last), before |-> Snapshot]
        /\ UNCHANGED <<max, notLRU>>

Set(k, v) ==
    LET after == LRUSetMap(map, max, k, v)
        lost == Lost(map, after) \ {k}
    IN  /\ map' = after
        /\ touch' = TouchAfter(touch, lost, {k})
        /\ stored' = [j \in Keys |-> IF j = k THEN v
                                     ELSE IF j \in lost THEN Undefined
                                     ELSE stored[j]]
        /\ pending' = PendingAfter(pending, map, lost, {k}, {})
        /\ last' = [op |-> "set", key |-> k, value |-> v, ret |-> Undefined,
                    prevHit |-> HitOf(last), before |-> Snapshot]
        /\ UNCHANGED <<max, notLRU>>

Clear ==
    /\ map' = LRUClearMap(map)
    /\ touch' = <<>>
    /\ stored' = [k \in Keys |-> Undefined]
    /\ pending' = [k \in Keys |-> NoPending]
    /\ last' = [op |-> "clear", key |-> Undefined, value |-> Undefined,
                ret |-> Undefined, prevHit |-> HitOf(last), before |-> Snapshot]
    /\ UNCHANGED <<max, notLRU>>

NextLRU ==
    \/ \E k \in Keys : Has(k)
    \/ \E k \in Keys : Get(k)
    \/ \E k \in Keys, v \in Values : Set(k, v)
    \/ Clear

\* caches of the capacities the program constructs (all positive)
InitLRU == InitCache(1..MaxCap)

\* caches of every non-negative capacity
InitLRU0 == InitCache(0..MaxCap)

(***************************************************************************)
(* computeYearData.  What the provider answers over a year at one latitude *)
(* is a daylight curve: longest on PeakDay, shorter by curve.slope for     *)
(* every day away from it (cyclically).  Where the curve asks for more     *)
(* than a day, or less than nothing, the sun does not cross the horizon    *)
(* and the provider gives Invalid Dates.  YearLen is yearData.length.      *)
(***************************************************************************)
YearLen == 72
PeakDay == YearLen \div 2

CycDist(d) ==
    LET a == IF d >= PeakDay THEN d - PeakDay ELSE PeakDay - d
    IN  IF a > YearLen - a THEN YearLen - a ELSE a

RawDaylight(curve, d) == curve.top - curve.slope * CycDist(d)

CurveSamples ==
    { [top |-> 15 * HourMs, slope |-> 10 * MinuteMs],
      [top |-> 24 * HourMs + 37 * MinuteMs, slope |-> 42 * MinuteMs],
      [top |-> 30 * HourMs, slope |-> 60 * MinuteMs],
      [top |-> 23 * HourMs + 57 * MinuteMs, slope |-> 42 * MinuteMs] }

ProviderTimes(curve, d) ==
    LET raw == RawDaylight(curve, d)
    IN  IF raw > DayMs \/ raw < 0 THEN SunCalcTimes(d, NoArc, NoArc)
        ELSE SunCalcTimes(d, Arc(raw \div 2), Arc(raw - (raw \div 2)))

ProviderNoonAltitude(curve, d) ==
    IF RawDaylight(curve, d) < 0 THEN -5 ELSE 5

computeYearData(curve) ==
    [ dayOfYear \in 1..YearLen |->
        getSunData(dayOfYear, ProviderTimes(curve, dayOfYear),
                   ProviderNoonAltitude(curve, dayOfYear)) ]

(***************************************************************************)
(* findUpcomingDaylightMilestones(currentDate, yearData, latitude, count). *)
(* Daylight hours are kept in milliseconds: data.daylight / (1000*60*60)   *)
(* compared with h is data.daylight compared with h * HourMs.  A milestone *)
(* date is the number of days after currentDate.                           *)
(***************************************************************************)
yearData == scanIn.yearData
currentDOY == scanIn.currentDOY

Abs(x) == IF x < 0 THEN -x ELSE x

\* Math.abs(latitude) > 66.5
isExtremeLatitude == Abs(scanIn.latitude) * 10 > 665

\* isExtremeLatitude ? 0.5 : 0.1 (hours)
POLAR_NIGHT_THRESHOLD == IF isExtremeLatitude THEN HourMs \div 2 ELSE HourMs \div 10

\* 23.9 (hours)
MIDNIGHT_SUN_THRESHOLD == (239 * HourMs) \div 10

\* isExtremeLatitude ? 60 : 30
SUPPRESSION_WINDOW == IF isExtremeLatitude THEN 60 ELSE 30

\* the days after an extreme conclusion that stay suppressed
AFTER_WINDOW == 7

getDataAtOffset(off) ==
    LET doy0 == currentDOY + off
        doy1 == IF doy0 > Len(yearData) THEN doy0 - Len(yearData) ELSE doy0
        doy == IF doy1 < 1 THEN doy1 + Len(yearData) ELSE doy1
    IN  IF doy \in DOMAIN yearData THEN yearData[doy] ELSE Null

Event(type, off, direction) == [type |-> type, offset |-> off, direction |-> direction]

\* first pass: the events pushed at one offset
EventsAt(off) ==
    LET prevData == getDataAtOffset(off - 1)
        currData == getDataAtOffset(off)
        prevHours == prevData.daylight
        currHours == currData.daylight
    IN  IF prevData = Null \/ currData = Null THEN <<>>
        ELSE
          (IF ~prevData.isPolarNight /\ currData.isPolarNight
           THEN <<Event("polar_night_begin", off, "decreasing")>>
           ELSE IF prevHours >= POLAR_NIGHT_THRESHOLD /\ currHours < POLAR_NIGHT_THRESHOLD
           THEN <<Event("polar_night_begin", off, "decreasing")>>
           ELSE <<>>)
          \o
          (IF prevData.isPolarNight /\ ~currData.isPolarNight
           THEN <<Event("polar_night_end", off, "increasing")>>
           ELSE IF prevHours < POLAR_NIGHT_THRESHOLD /\ currHours >= POLAR_NIGHT_THRESHOLD
           THEN <<Event("polar_night_end", off, "increasing")>>
           ELSE <<>>)
          \o
          (IF ~prevData.isPolarDay /\ currData.isPolarDay
           THEN <<Event("midnight_sun_begin", off, "increasing")>>
           ELSE IF prevHours <= MIDNIGHT_SUN_THRESHOLD /\ currHours > MIDNIGHT_SUN_THRESHOLD
           THEN <<Event("midnight_sun_begin", off, "increasing")>>
           ELSE <<>>)
          \o
          (IF prevData.isPolarDay /\ ~currData.isPolarDay
           THEN <<Event("midnight_sun_end", off, "decreasing")>>
           ELSE IF prevHours > MIDNIGHT_SUN_THRESHOLD /\ currHours <= MIDNIGHT_SUN_THRESHOLD
           THEN <<Event("midnight_sun_end", off, "decreasing")>>
           ELSE <<>>)

\* Array.prototype.sort by a numeric field (stable)
RECURSIVE InsertByField(_, _, _)
InsertByField(sorted, x, f) ==
    IF sorted = <<>> THEN <<x>>
    ELSE IF sorted[Len(sorted)][f] <= x[f] THEN Append(sorted, x)
    ELSE Append(InsertByField(SubSeq(sorted, 1, Len(sorted) - 1), x, f),
                sorted[Len(sorted)])

RECURSIVE SortByField(_, _)
SortByField(seq, f) ==
    IF seq = <<>> THEN <<>>
    ELSE InsertByField(SortByField(SubSeq(seq, 1, Len(seq) - 1), f), seq[Len(seq)], f)

RECURSIVE FirstPassFrom(_)
FirstPassFrom(off) ==
    IF off < Len(yearData) THEN EventsAt(off) \o FirstPassFrom(off + 1) ELSE <<>>

\* first pass, with the sort by offset that follows it
FirstPass == SortByField(FirstPassFrom(0), "offset")

shouldSuppressHourCrossing(events, off, isDecreasing) ==
    \E i \in DOMAIN events :
        LET event == events[i]
            daysUntilExtreme == event.offset - off
            daysSinceExtreme == off - event.offset
        IN  \/ /\ daysUntilExtreme >= 0 /\ daysUntilExtreme <= SUPPRESSION_WINDOW
               /\ \/ isDecreasing /\ event.type = "polar_night_begin"
                  \/ ~isDecreasing /\ event.type = "midnight_sun_begin"
            \/ /\ daysSinceExtreme >= 0 /\ daysSinceExtreme <= AFTER_WINDOW
               /\ \/ isDecreasing /\ event.type = "midnight_sun_end"
                  \/ ~isDecreasing /\ event.type = "polar_night_end"

\* the descriptions
PolarNightBeginsText == "Polar night begins (0h daylight)"
PolarNightEndsText == "Polar night ends"
MidnightSunBeginsText == "Midnight sun begins (24h daylight)"
MidnightSunEndsText == "Midnight sun ends"
MoreThanText(h) == "More than " \o ToString(h) \o "h of daylight"
LessThanText(h) == "Less than " \o ToString(h) \o "h of daylight"

Milestone(date, description) == [date |-> date, description |-> description]

\* the milestones and the found keys while a pass runs
Acc(ms, found) == [milestones |-> ms, found |-> found]

PushOnce(acc, cond, key, date, description) ==
    IF cond /\ key \notin acc.found
    THEN Acc(Append(acc.milestones, Milestone(date, description)), acc.found \cup {key})
    ELSE acc

\* the loop over h that takes every hour the day has reached for a crossing
\* above, whatever the day before was
RECURSIVE HourLoop_anyDay(_, _, _, _, _)
HourLoop_anyDay(h, acc, prevHours, currHours, off) ==
    IF h > 23 THEN acc
    ELSE
      LET above == PushOnce(acc,
                     /\ currHours >= h * HourMs
                     /\ ~shouldSuppressHourCrossing(extremeEvents, off, FALSE),
                     "above:" \o ToString(h), off, MoreThanText(h))
          below == PushOnce(above,
                     /\ prevHours >= h * HourMs /\ currHours < h * HourMs
                     /\ ~shouldSuppressHourCrossing(extremeEvents, off, TRUE),
                     "below:" \o ToString(h), off, LessThanText(h))
      IN  HourLoop_anyDay(h + 1, below, prevHours, currHours, off)

\* second pass: the loop over h = 1..23 at one offset
RECURSIVE HourLoop(_, _, _, _, _)
HourLoop(h, acc, prevHours, currHours, off) ==
    IF h > 23 THEN acc
    ELSE
      LET above == PushOnce(acc,
                     /\ prevHours < h * HourMs /\ currHours >= h * HourMs
                     /\ ~shouldSuppressHourCrossing(extremeEvents, off, FALSE),
                     "above:" \o ToString(h), off, MoreThanText(h))
          below == PushOnce(above,
                     /\ prevHours >= h * HourMs /\ currHours < h * HourMs
                     /\ ~shouldSuppressHourCrossing(extremeEvents, off, TRUE),
                     "below:" \o ToString(h), off, LessThanText(h))
      IN  HourLoop(h + 1, below, prevHours, currHours, off)

\* second pass: the body of the loop at one offset
ScanOffset(acc, off) ==
    LET prevData == getDataAtOffset(off - 1)
        currData == getDataAtOffset(off)
        prevHours == prevData.daylight
        currHours == currData.daylight
        polarNightBegins ==
            \/ ~prevData.isPolarNight /\ currData.isPolarNight
            \/ prevHours >= POLAR_NIGHT_THRESHOLD /\ currHours < POLAR_NIGHT_THRESHOLD
        polarNightEnds ==
            \/ prevData.isPolarNight /\ ~currData.isPolarNight
            \/ prevHours < POLAR_NIGHT_THRESHOLD /\ currHours >= POLAR_NIGHT_THRESHOLD
        midnightSunBegins ==
            \/ ~prevData.isPolarDay /\ currData.isPolarDay
            \/ prevHours <= MIDNIGHT_SUN_THRESHOLD /\ currHours > MIDNIGHT_SUN_THRESHOLD
        midnightSunEnds ==
            \/ prevData.isPolarDay /\ ~currData.isPolarDay
            \/ prevHours > MIDNIGHT_SUN_THRESHOLD /\ currHours <= MIDNIGHT_SUN_THRESHOLD
        a1 == PushOnce(acc, polarNightBegins, "polar_night_begin", off, PolarNightBeginsText)
        a2 == PushOnce(a1, polarNightEnds, "polar_night_end", off, PolarNightEndsText)
        a3 == PushOnce(a2, midnightSunBegins, "midnight_sun_begin", off, MidnightSunBeginsText)
        a4 == PushOnce(a3, midnightSunEnds, "midnight_sun_end", off, MidnightSunEndsText)
    IN  IF prevData = Null \/ currData = Null THEN acc
        ELSE HourLoop(1, a4, prevHours, currHours, off)

\* description.toLowerCase().includes(needle), for the needles of the third
\* pass; no description holds an underscore
LowerIncludes(description, needle) ==
    \/ needle = "midnight sun begins" /\ description = MidnightSunBeginsText
    \/ needle = "midnight sun ends" /\ description = MidnightSunEndsText
    \/ needle = "polar night begins" /\ description = PolarNightBeginsText
    \/ needle = "polar night ends" /\ description = PolarNightEndsText

\* description.includes(needle), for the needles of the extreme-latitude part
Includes(description, needle) ==
    \/ needle = "Midnight sun begins" /\ description = MidnightSunBeginsText
    \/ needle = "Midnight sun ends" /\ description = MidnightSunEndsText
    \/ needle = "Polar night begins" /\ description = PolarNightBeginsText
    \/ needle = "Polar night ends" /\ description = PolarNightEndsText

\* missingType.replace(' ', '_'): the first space, if there is one
ReplaceFirstSpace(str) ==
    CASE str = "midnight sun begins" -> "midnight_sun begins"
      [] str = "midnight sun ends" -> "midnight_sun ends"
      [] str = "polar night begins" -> "polar_night begins"
      [] str = "polar night ends" -> "polar_night ends"
      [] OTHER -> str

\* extremeEvents.find(e => e.type === type), as the milestone pushed for it
PushFirstEvent(ms, events, type, description) ==
    IF \E i \in DOMAIN events : events[i].type = type
    THEN LET i == CHOOSE i \in DOMAIN events :
                    /\ events[i].type = type
                    /\ \A j \in 1..(i - 1) : events[j].type # type
         IN  Append(ms, Milestone(events[i].offset, description))
    ELSE ms

addMissingExtremeEvent(ms, events, existingType, missingType, missingDesc) ==
    LET hasExisting == \E i \in DOMAIN ms : LowerIncludes(ms[i].description, existingType)
        hasMissing == \E i \in DOMAIN ms : LowerIncludes(ms[i].description, missingType)
    IN  IF hasExisting /\ ~hasMissing
        THEN PushFirstEvent(ms, events, ReplaceFirstSpace(missingType), missingDesc)
        ELSE ms

\* third pass
ThirdPass(ms, events) ==
    LET m1 == addMissingExtremeEvent(ms, events, "midnight sun begins",
                                     "midnight_sun_end", MidnightSunEndsText)
        m2 == addMissingExtremeEvent(m1, events, "midnight sun ends",
                                     "midnight_sun_begin", MidnightSunBeginsText)
        m3 == addMissingExtremeEvent(m2, events, "polar night begins",
                                     "polar_night_end", PolarNightEndsText)
        m4 == addMissingExtremeEvent(m3, events, "polar night ends",
                                     "polar_night_begin", PolarNightBeginsText)
        has(needle) == \E i \in DOMAIN m4 : Includes(m4[i].description, needle)
        hasMidnightSunEnd == has("Midnight sun ends")
        hasPolarNightBegin == has("Polar night begins")
        hasPolarNightEnd == has("Polar night ends")
        hasMidnightSunBegin == has("Midnight sun begins")
        m5 == IF hasMidnightSunEnd /\ ~hasPolarNightBegin
              THEN PushFirstEvent(m4, events, "polar_night_begin", PolarNightBeginsText)
              ELSE m4
        m6 == IF hasPolarNightEnd /\ ~hasMidnightSunBegin
              THEN PushFirstEvent(m5, events, "midnight_sun_begin", MidnightSunBeginsText)
              ELSE m5
    IN  IF isExtremeLatitude THEN m6 ELSE m4

LatitudeSamples == {-70, 66}
CountSamples == {1, 3, 10, 40}

InitScan ==
    /\ \E curve \in CurveSamples, doy \in 1..YearLen,
          latitude \in LatitudeSamples, count \in CountSamples :
            scanIn = [ yearData |-> computeYearData(curve), currentDOY |-> doy,
                       latitude |-> latitude, count |-> count ]
    /\ pc = "first"
    /\ offset = 0
    /\ extremeEvents = <<>>
    /\ milestones = <<>>
    /\ foundCrossings = {}
    /\ OnlyScan

\* the first pass and the sort of extremeEvents
PreScan ==
    /\ pc = "first"
    /\ extremeEvents' = FirstPass
    /\ pc' = "second"
    /\ UNCHANGED <<scanIn, offset, milestones, foundCrossings, notScan>>

\* one iteration of the second pass
ScanDay ==
    /\ pc = "second"
    /\ offset < Len(yearData) /\ Len(milestones) < scanIn.count
    /\ LET acc == ScanOffset(Acc(milestones, foundCrossings), offset)
       IN  /\ milestones' = acc.milestones
           /\ foundCrossings' = acc.found
    /\ offset' = offset + 1
    /\ UNCHANGED <<scanIn, pc, extremeEvents, notScan>>

\* the second pass ends; third pass, sort by date, return
Finish ==
    /\ pc = "second"
    /\ ~(offset < Len(yearData) /\ Len(milestones) < scanIn.count)
    /\ milestones' = SortByField(ThirdPass(milestones, extremeEvents), "date")
    /\ pc' = "done"
    /\ UNCHANGED <<scanIn, offset, extremeEvents, foundCrossings, notScan>>

NextScan == PreScan \/ ScanDay \/ Finish

(***************************************************************************)
(* Time zones.  An instant is a number of minutes since 00:00 UTC of day 0 *)
(* (Date.getTime() in minutes); the calendar has DaysPerYear days in every *)
(* year.  A zone is what Intl.DateTimeFormat knows about an IANA name: its *)
(* standard offset, the shift of its summer time and the minutes of the    *)
(* year, in its standard local time, between which summer time is on (the  *)
(* period may run over the new year).  An unknown name is not valid.       *)
(***************************************************************************)
DaysPerYear == 365
DayMin == 24 * 60
YearMin == DaysPerYear * DayMin

Zone(name, std, shift, from, to) ==
    [name |-> name, valid |-> TRUE, std |-> std, shift |-> shift, from |-> from, to |-> to]

\* a change at local standard time hh:mm on the 0-based day of the year
At(day, hh, mm) == day * DayMin + hh * 60 + mm

ZoneUTC == Zone("UTC", 0, 0, 0, 0)
ZoneOslo == Zone("Europe/Oslo", 60, 60, At(89, 2, 0), At(299, 2, 0))
ZoneLosAngeles == Zone("America/Los_Angeles", -480, 60, At(68, 2, 0), At(306, 1, 0))
ZoneAuckland == Zone("Pacific/Auckland", 720, 60, At(271, 2, 0), At(96, 2, 0))
ZoneLordHowe == Zone("Australia/Lord_Howe", 630, 30, At(278, 2, 0), At(96, 1, 30))
ZoneKolkata == Zone("Asia/Kolkata", 330, 0, 0, 0)
ZoneInvalid ==
    [name |-> "Mars/Olympus", valid |-> FALSE, std |-> 0, shift |-> 0, from |-> 0, to |-> 0]

\* x modulo m for any integer x
Mod(x, m) == ((x % m) + m) % m

\* the zone's UTC offset, in minutes, at an instant
OffsetAt(zone, instant) ==
    LET u == Mod(instant + zone.std, YearMin)
        summer == IF zone.from <= zone.to
                  THEN zone.from <= u /\ u < zone.to
                  ELSE u >= zone.from \/ u < zone.to
    IN  IF summer THEN zone.std + zone.shift ELSE zone.std

\* new Date(year, month, day, 12, 0, 0) in the zone of the runtime: the
\* instant of noon of a calendar day of that zone
NoonOf(zone, day) ==
    LET wall == day * DayMin + 12 * 60
        guess == wall - zone.std
    IN  wall - OffsetAt(zone, guess)

\* new Date(year, month, day) in the zone of the runtime: the instant of
\* the midnight that begins a calendar day of that zone
MidnightOf(zone, day) ==
    LET wall == day * DayMin
        guess == wall - zone.std
    IN  wall - OffsetAt(zone, guess)

\* the calendar day of an instant in a zone
DayIn(zone, instant) == (instant + OffsetAt(zone, instant) - Mod(instant + OffsetAt(zone, instant), DayMin)) \div DayMin

\* the minute of the day of an instant in a zone
MinuteIn(zone, instant) == Mod(instant + OffsetAt(zone, instant), DayMin)

\* Intl.DateTimeFormat(..., timeZoneName: 'shortOffset'): the timeZoneName
\* part, "GMT", "GMT+1", "GMT-5" or "GMT+5:30", as its pieces
ShortOffset(minutes) ==
    LET a == IF minutes < 0 THEN -minutes ELSE minutes
    IN  IF minutes = 0 THEN [text |-> "GMT"]
        ELSE [ text |-> "GMT", sign |-> IF minutes < 0 THEN "-" ELSE "+",
               hours |-> a \div 60,
               minutes |-> IF a % 60 = 0 THEN [undefined |-> TRUE] ELSE [val |-> a % 60] ]

\* a number where null may stand as well
Num(n) == [num |-> n]

\* getTimezoneOffset(date, timezone)
getTimezoneOffset(date, timezone) ==
    IF ~timezone.valid THEN Null
    ELSE
      LET offsetPart == ShortOffset(OffsetAt(timezone, date))
      IN  IF "sign" \notin DOMAIN offsetPart THEN Num(0)
          ELSE
            LET sign == IF offsetPart.sign = "+" THEN 1 ELSE -1
                hours == offsetPart.hours
                minutes == IF offsetPart.minutes = [undefined |-> TRUE] THEN 0
                           ELSE offsetPart.minutes.val
            IN  Num(sign * (hours * 60 + minutes))

\* two digits
Pad2(n) == IF n < 10 THEN "0" \o ToString(n) ELSE ToString(n)

\* HH:MM of a minute of the day
ClockText(minute) == Pad2(minute \div 60) \o ":" \o Pad2(minute % 60)

\* a Date as an instant: getTime(), in minutes
InstantOf(d) == d.day * DayMin + (d.time \div MinuteMs)

\* formatTimeInTz(date, timezone)
formatTimeInTz(date, timezone) ==
    IF date = Null \/ isNaN(date) THEN Null
    ELSE IF ~timezone.valid THEN Null
    ELSE [text |-> ClockText(MinuteIn(timezone, InstantOf(date)))]

(***************************************************************************)
(* findUpcomingDSTChanges(currentDate, timezone, latitude, longitude,      *)
(* count).  currentDate and the dates of the transitions are calendar days *)
(* of the runtime's zone (new Date(y, m, d, ...), setDate, getDate).       *)
(***************************************************************************)
DST_SCAN_DAYS == 400

\* `${offsetChange / 60}`
HoursText(change) ==
    LET a == IF change < 0 THEN -change ELSE change
        whole == ToString(a \div 60)
        text == IF a % 60 = 0 THEN whole
                ELSE IF a % 60 = 30 THEN whole \o ".5"
                ELSE whole \o ".?"
    IN  IF change < 0 THEN "-" \o text ELSE text

DSTDescription(offsetChange) ==
    IF offsetChange > 0
    THEN "DST begins (clocks +" \o HoursText(offsetChange) \o "h)"
    ELSE "DST ends (clocks " \o HoursText(offsetChange) \o "h)"

\* the provider's answer for the day of a transition: the sun rises and
\* sets six hours from 12:00 UTC
DSTSunData(date) ==
    getSunData(date, SunCalcTimes(date, Arc(6 * HourMs), Arc(6 * HourMs)), 5)

HostSamples == {ZoneUTC, ZoneOslo, ZoneLosAngeles, ZoneAuckland}
TimezoneSamples == {ZoneOslo, ZoneLosAngeles, ZoneAuckland, ZoneLordHowe, ZoneKolkata, ZoneInvalid}
StartDaySamples == {59, 280}
DSTCountSamples == {1, 2}

InitDst ==
    /\ \E host \in HostSamples, timezone \in TimezoneSamples,
          currentDate \in StartDaySamples, count \in DSTCountSamples :
            dstIn = [ host |-> host, timezone |-> timezone,
                      currentDate |-> currentDate, count |-> count ]
    /\ dstPc = "start"
    /\ dstOffset = 0
    /\ prevNoonOffset = Null
    /\ transitions = <<>>
    /\ OnlyDst

\* the noon offset of the day before the scan starts
DstStart ==
    /\ dstPc = "start"
    /\ LET startDate == dstIn.currentDate - 1
           prevNoon == NoonOf(dstIn.host, startDate)
       IN  prevNoonOffset' = getTimezoneOffset(prevNoon, dstIn.timezone)
    /\ dstPc' = "loop"
    /\ UNCHANGED <<dstIn, dstOffset, transitions, notDst>>

\* one iteration of the loop over the days
DstDay ==
    /\ dstPc = "loop"
    /\ dstOffset <= DST_SCAN_DAYS /\ Len(transitions) < dstIn.count
    /\ LET date == dstIn.currentDate + dstOffset
           noon == NoonOf(dstIn.host, date)
           noonOffset == getTimezoneOffset(noon, dstIn.timezone)
       IN  /\ IF prevNoonOffset # Null /\ noonOffset # Null /\ prevNoonOffset # noonOffset
              THEN LET offsetChange == noonOffset.num - prevNoonOffset.num
                       sunData == DSTSunData(date)
                   IN  transitions' = Append(transitions,
                         [ date |-> date,
                           description |-> DSTDescription(offsetChange),
                           sunriseTime |-> formatTimeInTz(sunData.sunrise, dstIn.timezone),
                           sunsetTime |-> formatTimeInTz(sunData.sunset, dstIn.timezone) ])
              ELSE UNCHANGED transitions
           /\ prevNoonOffset' = noonOffset
    /\ dstOffset' = dstOffset + 1
    /\ UNCHANGED <<dstIn, dstPc, notDst>>

\* the loop ends: return transitions
DstReturn ==
    /\ dstPc = "loop"
    /\ ~(dstOffset <= DST_SCAN_DAYS /\ Len(transitions) < dstIn.count)
    /\ dstPc' = "done"
    /\ UNCHANGED <<dstIn, dstOffset, prevNoonOffset, transitions, notDst>>

NextDst == DstStart \/ DstDay \/ DstReturn

(***************************************************************************)
(* upcomingDates: the milestones of the five finders merged into one list. *)
(* The finders' answers are the arguments: a Date is DateOf(day, ms), the  *)
(* runtime's calendar day and the time since its midnight.                 *)
(***************************************************************************)
PRIORITY == [DST |-> 0, ASTRONOMICAL |-> 1, SUNRISE |-> 2, SUNSET |-> 3, DAYLIGHT |-> 4]

\* getDateKey(date): year-month-day of the runtime's calendar
getDateKey(date) == date.day

UpcomingEvent(date, description, priority, type) ==
    [ date |-> date, dateKey |-> getDateKey(date), description |-> description,
      priority |-> priority, type |-> type ]

SunriseText(kind, h) == "Sunrise " \o kind \o " " \o Pad2(h) \o ":00"
SunsetText(kind, h) == "Sunset " \o kind \o " " \o Pad2(h) \o ":00"

\* description.match(/(\d{2}):/), parseInt of the group, 12 without a match
ClockHourOf(description) ==
    IF \E h \in 0..23, kind \in {"before", "after"} :
          description \in {SunriseText(kind, h), SunsetText(kind, h)}
    THEN CHOOSE h \in 0..23 : \E kind \in {"before", "after"} :
          description \in {SunriseText(kind, h), SunsetText(kind, h)}
    ELSE 12

\* description.match(/(\d+)h/), parseInt of the group, 0 without a match
DaylightHoursOf(description) ==
    IF \E h \in 1..23 : description \in {MoreThanText(h), LessThanText(h)}
    THEN CHOOSE h \in 1..23 : description \in {MoreThanText(h), LessThanText(h)}
    ELSE IF description = MidnightSunBeginsText THEN 24
    ELSE 0

\* the events pushed for the DST changes
RECURSIVE DstEvents(_)
DstEvents(dstChanges) ==
    IF dstChanges = <<>> THEN <<>>
    ELSE
      LET change == Head(dstChanges)
      IN  <<UpcomingEvent(change.date, change.description, PRIORITY.DST, "dst")>>
          \o (IF change.sunriseTime # Null
              THEN <<UpcomingEvent(change.date, "Sunrise at " \o change.sunriseTime.text,
                                   PRIORITY.SUNRISE, "sunrise")>>
              ELSE <<>>)
          \o (IF change.sunsetTime # Null
              THEN <<UpcomingEvent(change.date, "Sunset at " \o change.sunsetTime.text,
                                   PRIORITY.SUNSET, "sunset")>>
              ELSE <<>>)
          \o DstEvents(Tail(dstChanges))

\* one milestone per date: the Map sunriseByDate (the earliest hour),
\* sunsetByDate (the latest hour) or daylightByDate (the most hours) after
\* the loop over the milestones
RECURSIVE ByDate(_, _, _, _)
ByDate(found, byDate, skipKeys, type) ==
    IF found = <<>> THEN byDate
    ELSE
      LET milestone == Head(found)
          dateKey == getDateKey(milestone.date)
          hour == IF type = "daylight" THEN DaylightHoursOf(milestone.description)
                  ELSE ClockHourOf(milestone.description)
          existing == MapGet(byDate, dateKey)
          next == IF dateKey \in skipKeys THEN byDate
                  ELSE IF \/ existing = Undefined
                          \/ type = "sunrise" /\ hour < existing.hour
                          \/ type # "sunrise" /\ hour > existing.hour
                  THEN MapSet(byDate, dateKey, [milestone |-> milestone, hour |-> hour])
                  ELSE byDate
      IN  ByDate(Tail(found), next, skipKeys, type)

\* the events pushed for byDate.values()
ValuesAsEvents(byDate, priority, type) ==
    [ i \in DOMAIN byDate |->
        UpcomingEvent(byDate[i].value.milestone.date,
                      byDate[i].value.milestone.description, priority, type) ]

\* the comparator of events.sort: negative, zero or positive
CompareEvents(a, b) ==
    LET dateCompare == TimeDiff(a.date, b.date)
    IN  IF dateCompare # 0 THEN dateCompare ELSE a.priority - b.priority

\* events.sort(compare) (stable)
RECURSIVE InsertEvent(_, _)
InsertEvent(sorted, x) ==
    IF sorted = <<>> THEN <<x>>
    ELSE IF CompareEvents(sorted[Len(sorted)], x) <= 0 THEN Append(sorted, x)
    ELSE Append(InsertEvent(SubSeq(sorted, 1, Len(sorted) - 1), x), sorted[Len(sorted)])

RECURSIVE SortEvents(_)
SortEvents(seq) ==
    IF seq = <<>> THEN <<>>
    ELSE InsertEvent(SortEvents(SubSeq(seq, 1, Len(seq) - 1)), seq[Len(seq)])

\* events.slice(0, 25)
MAX_EVENTS == 25
Slice(seq, n) == SubSeq(seq, 1, IF Len(seq) < n THEN Len(seq) ELSE n)

upcomingDates(dstChanges, sunriseMilestones, sunsetMilestones, daylightMilestones, astroEvents) ==
    LET dstDateKeys == { getDateKey(dstChanges[i].date) : i \in DOMAIN dstChanges }
        sunriseByDate == ByDate(sunriseMilestones, <<>>, dstDateKeys, "sunrise")
        sunsetByDate == ByDate(sunsetMilestones, <<>>, dstDateKeys, "sunset")
        daylightByDate == ByDate(daylightMilestones, <<>>, {}, "daylight")
        astro == [ i \in DOMAIN astroEvents |->
                     UpcomingEvent(astroEvents[i].date, astroEvents[i].name,
                                   PRIORITY.ASTRONOMICAL, "astronomical") ]
        events == DstEvents(dstChanges)
                    \o ValuesAsEvents(sunriseByDate, PRIORITY.SUNRISE, "sunrise")
                    \o ValuesAsEvents(sunsetByDate, PRIORITY.SUNSET, "sunset")
                    \o ValuesAsEvents(daylightByDate, PRIORITY.DAYLIGHT, "daylight")
                    \o astro
    IN  Slice(SortEvents(events), MAX_EVENTS)

\* what the finders may answer
MaxDay == 2
MergeDays == 1..MaxDay
EquinoxMs == 3 * HourMs + 6 * MinuteMs

SeqsUpTo(S, n) == UNION { [1..k -> S] : k \in 0..n }

DstChangeSamples ==
    { [ date |-> DateOf(d, 0), description |-> DSTDescription(60),
        sunriseTime |-> [text |-> "06:30"], sunsetTime |-> Null ] : d \in MergeDays }
SunriseSamples ==
    { Milestone(DateOf(d, 0), SunriseText("before", h)) : d \in MergeDays, h \in {5, 6} }
SunsetSamples ==
    { Milestone(DateOf(d, 0), SunsetText("after", 19)) : d \in MergeDays }
DaylightSamples ==
    { Milestone(DateOf(d, 0), MoreThanText(h)) : d \in MergeDays, h \in {12, 13} }
AstroSamples ==
    { [date |-> DateOf(d, ms), name |-> "Spring Equinox"] : d \in MergeDays, ms \in {0, EquinoxMs} }

InitMerge ==
    /\ \E dstChanges \in SeqsUpTo(DstChangeSamples, 1),
          sunriseMilestones \in SeqsUpTo(SunriseSamples, 2),
          sunsetMilestones \in SeqsUpTo(SunsetSamples, 1),
          daylightMilestones \in SeqsUpTo(DaylightSamples, 2),
          astroEvents \in SeqsUpTo(AstroSamples, 1) :
            args = [ fn |-> "upcomingDates", dstChanges |-> dstChanges,
                     sunriseMilestones |-> sunriseMilestones,
                     sunsetMilestones |-> sunsetMilestones,
                     daylightMilestones |-> daylightMilestones,
                     astroEvents |-> astroEvents ]
    /\ result = Null
    /\ OnlyCall

CallUpcomingDates ==
    /\ args # Null /\ args.fn = "upcomingDates" /\ result = Null
    /\ result' = [ value |-> upcomingDates(args.dstChanges, args.sunriseMilestones,
                                           args.sunsetMilestones, args.daylightMilestones,
                                           args.astroEvents) ]
    /\ UNCHANGED <<args, notCall>>

NextMerge == CallUpcomingDates

(***************************************************************************)
(* dateAtLocalInTimezone(year, month, day, hour, min, timezone).  The      *)
(* calendar day (year, month, day) is a day number; M is an instant in     *)
(* minutes.  The formatter prints midnight as hour "00", or as "24" where  *)
(* the engine resolves hour12: false to the 1-24 hour cycle.               *)
(***************************************************************************)
Returns(v) == [value |-> v]
Throws == [threw |-> "RangeError"]

\* parseInt of a two-digit part
ParseInt2(text) ==
    IF \E n \in 0..59 : Pad2(n) = text
    THEN CHOOSE n \in 0..59 : Pad2(n) = text
    ELSE 0

\* formatter.formatToParts(M): the day, and the hour and minute as printed
FormatParts(timezone, M, h24) ==
    LET minuteOfDay == MinuteIn(timezone, M)
        hh == IF h24 /\ minuteOfDay \div 60 = 0 THEN 24 ELSE minuteOfDay \div 60
    IN  [ day |-> DayIn(timezone, M), hour |-> Pad2(hh), minute |-> Pad2(minuteOfDay % 60) ]

MAX_LOCAL_ITERATIONS == 15

\* the loop body found the local midnight of the day at M
AtLocalMidnight(in, M) ==
    LET parts == FormatParts(in.timezone, M, in.h24)
    IN  parts.day = in.day /\ ParseInt2(parts.hour) = 0 /\ ParseInt2(parts.minute) = 0

\* the loop body otherwise: the next M
NextM(in, M) ==
    LET parts == FormatParts(in.timezone, M, in.h24)
        d0 == parts.day
        h0 == ParseInt2(parts.hour)
        min0 == ParseInt2(parts.minute)
    IN  IF d0 = in.day THEN M - (h0 * 60 + min0)
        ELSE IF d0 < in.day THEN M + 24 * 60
        ELSE M - 24 * 60

RECURSIVE LocalSearch(_, _, _)
LocalSearch(in, M, i) ==
    IF i < MAX_LOCAL_ITERATIONS /\ ~AtLocalMidnight(in, M)
    THEN LocalSearch(in, NextM(in, M), i + 1)
    ELSE M + in.hour * 60 + in.min

dateAtLocalInTimezone(day, hour, min, timezone, h24) ==
    IF ~timezone.valid THEN Throws
    ELSE Returns(LocalSearch([day |-> day, hour |-> hour, min |-> min,
                              timezone |-> timezone, h24 |-> h24],
                             day * DayMin + 12 * 60, 0))

\* formatTimeInTimezone(date, timezone): HH:MM in the zone, or of the UTC
\* clock where the formatter cannot be made
formatTimeInTimezone(date, timezone) ==
    IF date = Null \/ isNaN(date) THEN "--:--"
    ELSE IF timezone.valid THEN ClockText(MinuteIn(timezone, InstantOf(date)))
    ELSE ClockText(Mod(InstantOf(date), DayMin))

\* getCalendarDayInTimezone(date, timezone): the calendar day as a day
\* number; the formatter is made, and used, outside any try
getCalendarDayInTimezone(date, timezone) ==
    IF ~timezone.valid THEN Throws
    ELSE IF isNaN(date) THEN Throws
    ELSE Returns(DayIn(timezone, InstantOf(date)))

\* getHourInTimezone(date, timezone), in minutes
getHourInTimezone(date, timezone, h24) ==
    LET cal == getCalendarDayInTimezone(date, timezone)
        midnight == dateAtLocalInTimezone(cal.value, 0, 0, timezone, h24)
    IN  IF cal = Throws THEN Throws
        ELSE IF midnight = Throws THEN Throws
        ELSE Returns(InstantOf(date) - midnight.value)

\* the functions that take a time zone, called once each
ZoneFunctions ==
    { "formatTimeInTimezone", "formatTimeInTz", "getTimezoneOffset",
      "getCalendarDayInTimezone", "getHourInTimezone", "dateAtLocalInTimezone" }

ZoneCall(fn, date, timezone, h24) ==
    CASE fn = "formatTimeInTimezone" -> Returns(formatTimeInTimezone(date, timezone))
      [] fn = "formatTimeInTz" -> Returns(formatTimeInTz(date, timezone))
      [] fn = "getTimezoneOffset" ->
             Returns(IF isNaN(date) THEN Null
                     ELSE getTimezoneOffset(InstantOf(date), timezone))
      [] fn = "getCalendarDayInTimezone" -> getCalendarDayInTimezone(date, timezone)
      [] fn = "getHourInTimezone" -> getHourInTimezone(date, timezone, h24)
      [] fn = "dateAtLocalInTimezone" ->
             IF isNaN(date) THEN Throws
             ELSE dateAtLocalInTimezone(date.day, 0, 0, timezone, h24)

ZoneDateSamples ==
    {InvalidDate} \cup
    { DateOf(day, hh * HourMs + mm * MinuteMs) :
        day \in {50, 89, 200, 299}, hh \in {0, 1, 11, 23}, mm \in {0, 30} }

InitZone ==
    /\ \E fn \in ZoneFunctions, date \in ZoneDateSamples,
          timezone \in TimezoneSamples, h24 \in BOOLEAN :
          args = [fn |-> fn, date |-> date, timezone |-> timezone, h24 |-> h24]
    /\ result = Null
    /\ OnlyCall

CallZoneFunction ==
    /\ args # Null /\ args.fn \in ZoneFunctions /\ "date" \in DOMAIN args
    /\ result = Null
    /\ result' = ZoneCall(args.fn, args.date, args.timezone, args.h24)
    /\ UNCHANGED <<args, notCall>>

NextZone == CallZoneFunction

\* dateAtLocalInTimezone step by step: the call, the iterations of its loop
\* and its two returns
LocalIn == [ day |-> args.day, hour |-> args.hour, min |-> args.min,
             timezone |-> args.timezone, h24 |-> args.h24 ]

\* a loop test that lets one more iteration through
LoopGoesOn_oneMore(n) == n <= MAX_LOCAL_ITERATIONS

LoopGoesOn(n) == n < MAX_LOCAL_ITERATIONS

LocalDaySamples == {50, 68, 89, 96, 271, 299}
LocalHourSamples == {0, 1, 2, 3, 12, 23}
LocalMinSamples == {0, 30}

InitLocal ==
    /\ \E day \in LocalDaySamples, hour \in LocalHourSamples, min \in LocalMinSamples,
          timezone \in TimezoneSamples, h24 \in BOOLEAN :
          /\ args = [ fn |-> "dateAtLocalInTimezone", day |-> day, hour |-> hour,
                      min |-> min, timezone |-> timezone, h24 |-> h24 ]
          /\ localM = day * DayMin + 12 * 60
    /\ localI = 0
    /\ result = Null
    /\ OnlyLocal

\* new Intl.DateTimeFormat with a time zone the engine does not know
LocalThrow ==
    /\ args # Null /\ args.fn = "dateAtLocalInTimezone" /\ result = Null
    /\ ~args.timezone.valid
    /\ result' = Throws
    /\ UNCHANGED <<args, localM, localI, notLocal>>

\* an iteration that finds the local midnight and returns
LocalFound ==
    /\ args # Null /\ args.fn = "dateAtLocalInTimezone" /\ result = Null
    /\ args.timezone.valid
    /\ LoopGoesOn(localI) /\ AtLocalMidnight(LocalIn, localM)
    /\ result' = Returns(localM + args.hour * 60 + args.min)
    /\ UNCHANGED <<args, localM, localI, notLocal>>

\* an iteration that moves M
LocalIterate ==
    /\ args # Null /\ args.fn = "dateAtLocalInTimezone" /\ result = Null
    /\ args.timezone.valid
    /\ LoopGoesOn(localI) /\ ~AtLocalMidnight(LocalIn, localM)
    /\ localM' = NextM(LocalIn, localM)
    /\ localI' = localI + 1
    /\ UNCHANGED <<args, result, notLocal>>

\* the return after the loop
LocalExhausted ==
    /\ args # Null /\ args.fn = "dateAtLocalInTimezone" /\ result = Null
    /\ args.timezone.valid
    /\ ~LoopGoesOn(localI)
    /\ result' = Returns(localM + args.hour * 60 + args.min)
    /\ UNCHANGED <<args, localM, localI, notLocal>>

NextLocal == LocalThrow \/ LocalFound \/ LocalIterate \/ LocalExhausted

(***************************************************************************)
(* The twilight bands of one day: resolveZone, rotateBands and the body of *)
(* the loop of twilightData.  Hours are kept in minutes (an hour h is      *)
(* 60 * h), altitudes in thousandths of a degree.                          *)
(***************************************************************************)
THRESH_SUNRISE == -833
THRESH_CIVIL == -6000
THRESH_NAUTICAL == -12000
THRESH_ASTRONOMICAL == -18000

DAY_HOURS == 24 * 60

DateAt(instant) == DateOf(instant \div DayMin, (instant % DayMin) * MinuteMs)

Min2(a, b) == IF a < b THEN a ELSE b
Max2(a, b) == IF a > b THEN a ELSE b

\* toHourRelative(t, refMidnight): Null, or the hours as Num
toHourRelative(t, refMidnight) ==
    IF t = Null \/ isNaN(t) THEN Null
    ELSE Num(InstantOf(t) - refMidnight)

Band(m, e) == [morning |-> m, evening |-> e]

\* resolveZone without the noon-altitude test of the last case: a threshold
\* with no events is never "always above"
resolveZone_neverAlways(morningTime, eveningTime, threshold, refMidnight, noonAlt) ==
    LET mRaw == toHourRelative(morningTime, refMidnight)
        eRaw == toHourRelative(eveningTime, refMidnight)
        clamp(x) == Max2(0, Min2(DAY_HOURS, x))
    IN  IF mRaw # Null /\ eRaw # Null
        THEN LET m == clamp(mRaw.num)
                 e == clamp(eRaw.num)
             IN  IF m < e THEN <<Band(m, e)>>
                 ELSE IF noonAlt > threshold THEN <<Band(0, DAY_HOURS)>> ELSE <<>>
        ELSE <<>>

\* resolveZone that extends a set without a rise to the end of the day, the
\* wrong edge
resolveZone_wrongEdge(morningTime, eveningTime, threshold, refMidnight, noonAlt) ==
    LET mRaw == toHourRelative(morningTime, refMidnight)
        eRaw == toHourRelative(eveningTime, refMidnight)
        clamp(x) == Max2(0, Min2(DAY_HOURS, x))
    IN  IF mRaw # Null /\ eRaw # Null
        THEN LET m == clamp(mRaw.num)
                 e == clamp(eRaw.num)
             IN  IF m < e THEN <<Band(m, e)>>
                 ELSE IF noonAlt > threshold THEN <<Band(0, DAY_HOURS)>> ELSE <<>>
        ELSE IF mRaw # Null /\ eRaw = Null
        THEN IF noonAlt > threshold
             THEN LET m == clamp(mRaw.num)
                  IN  IF m < DAY_HOURS THEN <<Band(m, DAY_HOURS)>> ELSE <<>>
             ELSE <<>>
        ELSE IF mRaw = Null /\ eRaw # Null
        THEN IF noonAlt > threshold
             THEN LET e == clamp(eRaw.num)
                  IN  IF e < DAY_HOURS THEN <<Band(e, DAY_HOURS)>> ELSE <<>>
             ELSE <<>>
        ELSE IF noonAlt > threshold THEN <<Band(0, DAY_HOURS)>> ELSE <<>>

resolveZone(morningTime, eveningTime, threshold, refMidnight, noonAlt) ==
    LET mRaw == toHourRelative(morningTime, refMidnight)
        eRaw == toHourRelative(eveningTime, refMidnight)
        clamp(x) == Max2(0, Min2(DAY_HOURS, x))
    IN  IF mRaw # Null /\ eRaw # Null
        THEN LET m == clamp(mRaw.num)
                 e == clamp(eRaw.num)
             IN  IF m < e THEN <<Band(m, e)>>
                 ELSE IF noonAlt > threshold THEN <<Band(0, DAY_HOURS)>> ELSE <<>>
        ELSE IF mRaw # Null /\ eRaw = Null
        THEN IF noonAlt > threshold
             THEN LET m == clamp(mRaw.num)
                  IN  IF m < DAY_HOURS THEN <<Band(m, DAY_HOURS)>> ELSE <<>>
             ELSE <<>>
        ELSE IF mRaw = Null /\ eRaw # Null
        THEN IF noonAlt > threshold
             THEN LET e == clamp(eRaw.num)
                  IN  IF e > 0 THEN <<Band(0, e)>> ELSE <<>>
             ELSE <<>>
        ELSE IF noonAlt > threshold THEN <<Band(0, DAY_HOURS)>> ELSE <<>>

\* what one band becomes under the shift
RotateOne(b, shift) ==
    LET m == b.morning + shift
        e == b.evening + shift
    IN  IF m >= 0 /\ e <= DAY_HOURS THEN <<Band(m, e)>>
        ELSE IF m < 0 /\ e <= DAY_HOURS
        THEN (IF e > 0 THEN <<Band(0, e)>> ELSE <<>>)
             \o (IF m + DAY_HOURS < DAY_HOURS THEN <<Band(m + DAY_HOURS, DAY_HOURS)>> ELSE <<>>)
        ELSE IF m >= 0 /\ e > DAY_HOURS
        THEN (IF m < DAY_HOURS THEN <<Band(m, DAY_HOURS)>> ELSE <<>>)
             \o (IF e - DAY_HOURS > 0 THEN <<Band(0, e - DAY_HOURS)>> ELSE <<>>)
        ELSE <<Band(0, DAY_HOURS)>>

RECURSIVE RotateAll(_, _)
RotateAll(bands, shift) ==
    IF bands = <<>> THEN <<>>
    ELSE RotateOne(Head(bands), shift) \o RotateAll(Tail(bands), shift)

\* rotateBands(bands, shift); Math.abs(shift) < 0.001 is shift = 0 in minutes
rotateBands(bands, shift) ==
    IF shift = 0 THEN bands
    ELSE SelectSeq(RotateAll(bands, shift), LAMBDA b : b.evening > b.morning)

\* SunCalc.getTimes(naturalNoon, ...): the transit is eot minutes off the
\* natural noon; each pair of events lies one arc before and after it, or
\* is a pair of Invalid Dates
TwilightTimes(naturalNoon, eot, arcs) ==
    LET transit == naturalNoon + eot
        rise(a) == IF a = NoArc THEN InvalidDate ELSE DateAt(transit - (a.ms \div MinuteMs))
        set(a) == IF a = NoArc THEN InvalidDate ELSE DateAt(transit + (a.ms \div MinuteMs))
    IN  [ sunrise |-> rise(arcs[1]), sunset |-> set(arcs[1]),
          dawn |-> rise(arcs[2]), dusk |-> set(arcs[2]),
          nauticalDawn |-> rise(arcs[3]), nauticalDusk |-> set(arcs[3]),
          nightEnd |-> rise(arcs[4]), night |-> set(arcs[4]) ]

\* the zones of the day in natural solar time
NaturalZones(in) ==
    LET naturalOffsetMs == in.longitude * 4
        utcMidnightMs == in.day * DayMin
        naturalMidnight == utcMidnightMs - naturalOffsetMs
        naturalNoon == naturalMidnight + 12 * 60
        times == TwilightTimes(naturalNoon, in.eot, in.arcs)
    IN  [ daylight |-> resolveZone(times.sunrise, times.sunset, THRESH_SUNRISE,
                                   naturalMidnight, in.noonAlt),
          civil |-> resolveZone(times.dawn, times.dusk, THRESH_CIVIL,
                                naturalMidnight, in.noonAlt),
          nautical |-> resolveZone(times.nauticalDawn, times.nauticalDusk, THRESH_NAUTICAL,
                                   naturalMidnight, in.noonAlt),
          astronomical |-> resolveZone(times.nightEnd, times.night, THRESH_ASTRONOMICAL,
                                       naturalMidnight, in.noonAlt) ]

\* selectedMidnight: Returns(instant) or Throws
SelectedMidnight(in) ==
    IF in.timezone # Null
    THEN dateAtLocalInTimezone(in.day, 0, 0, in.timezone, in.h24)
    ELSE Returns(MidnightOf(in.host, in.day))

\* shift, in minutes
ShiftOf(in) == (in.day * DayMin - in.longitude * 4) - SelectedMidnight(in).value

\* the body of the loop of twilightData for one day
twilightDay(in) ==
    IF SelectedMidnight(in) = Throws THEN Throws
    ELSE
      LET zones == NaturalZones(in)
          shift == ShiftOf(in)
      IN  Returns([ daylight |-> rotateBands(zones.daylight, shift),
                    civil |-> rotateBands(zones.civil, shift),
                    nautical |-> rotateBands(zones.nautical, shift),
                    astronomical |-> rotateBands(zones.astronomical, shift) ])

\* what the provider may answer for a day: per threshold (sunrise, civil,
\* nautical, astronomical) one arc or none, and the altitude at noon.  The
\* arcs grow as the threshold falls; a threshold the sun stays above all day
\* has no arc, and neither has any lower one.  The altitude at natural noon
\* is above a threshold exactly when natural noon lies between the events
\* of the threshold (the arc is longer than the transit is off noon); a
\* threshold the sun stays below all day has no arc, and neither has any
\* higher one
Thresholds == <<THRESH_SUNRISE, THRESH_CIVIL, THRESH_NAUTICAL, THRESH_ASTRONOMICAL>>
TwilightArcs == {NoArc} \cup { Arc(a * MinuteMs) : a \in {0, 360, 700, 720} }
NoonAltSamples == {-20000, -15000, -9000, -3000, 0, 40000}

SkySamples(eot) ==
    { sky \in [arcs : [1..4 -> TwilightArcs], noonAlt : NoonAltSamples] :
        /\ \A i, j \in 1..4 :
             i < j /\ sky.arcs[i] # NoArc /\ sky.arcs[j] # NoArc
               => sky.arcs[i].ms <= sky.arcs[j].ms
        /\ \A i \in 1..4 :
             sky.arcs[i] # NoArc
               => (sky.noonAlt > Thresholds[i] <=> sky.arcs[i].ms > Abs(eot) * MinuteMs)
        /\ \A i, j \in 1..4 :
             i < j /\ sky.arcs[i] = NoArc /\ sky.noonAlt > Thresholds[i]
               => sky.arcs[j] = NoArc
        /\ \A i, j \in 1..4 :
             i < j /\ sky.arcs[j] = NoArc /\ sky.noonAlt <= Thresholds[j]
               => sky.arcs[i] = NoArc }

EotSamples == {-15, 0, 15}
LongitudeSamples == {-180, 10, 76}
TwilightDaySamples == {50, 89}
TwilightZoneSamples == {Null, ZoneOslo, ZoneAuckland, ZoneKolkata}

InitBands ==
    /\ \E eot \in EotSamples, longitude \in LongitudeSamples,
          day \in TwilightDaySamples, timezone \in TwilightZoneSamples,
          h24 \in BOOLEAN :
          \E sky \in SkySamples(eot) :
            /\ timezone = Null => ~h24
            /\ args = [ fn |-> "twilightData", arcs |-> sky.arcs, noonAlt |-> sky.noonAlt,
                        eot |-> eot, longitude |-> longitude, day |-> day,
                        timezone |-> timezone, host |-> ZoneLosAngeles, h24 |-> h24 ]
    /\ result = Null
    /\ OnlyCall

CallTwilightDay ==
    /\ args # Null /\ args.fn = "twilightData" /\ result = Null
    /\ result' = twilightDay(args)
    /\ UNCHANGED <<args, notCall>>

NextBands == CallTwilightDay

(***************************************************************************)
(* findOppositeDate(currentDate): the mirror date.  A Date is its instant  *)
(* in minutes; the year is the model's year of DaysPerYear days, and the   *)
(* zone of the runtime (host) decides the calendar day of a Date.          *)
(***************************************************************************)
\* getDayOfYear(date): whole days since new Date(year, 0, 0), the local
\* midnight that begins December 31 of the year before
getDayOfYear(host, date) == (date - MidnightOf(host, -1)) \div DayMin

QuarterDay == 6 * 60
QuarterYear == DaysPerYear
HalfYear == 2 * DaysPerYear
DaylightSwing == 217 * 60

\* getSunData(new Date(year, 0, dayOfYear), 45).daylight in milliseconds for
\* the 0-based day: 12 hours, plus or minus up to DaylightSwing seconds,
\* longest at the summer solstice and shortest half a year from it; a smooth
\* curve that depends on the time, in quarter days, between the noon of the
\* day and the solstice
MirrorDaylight(day, solstice) ==
    LET around == Mod(day * DayMin + 12 * 60 - solstice, YearMin)
        apart == IF around > YearMin \div 2 THEN YearMin - around ELSE around
        v == apart \div QuarterDay
        w == HalfYear - v
        swing == IF v <= QuarterYear
                 THEN DaylightSwing - (DaylightSwing * v * v) \div (QuarterYear * QuarterYear)
                 ELSE (DaylightSwing * w * w) \div (QuarterYear * QuarterYear) - DaylightSwing
    IN  (12 * 3600 + swing) * 1000

\* computeYearData(MIRROR_LATITUDE, year)
MirrorYearData(solstice) ==
    [ doy \in 1..DaysPerYear |-> [daylight |-> MirrorDaylight(doy - 1, solstice)] ]

\* the for loop of findOppositeDate over the days lo..hi: Null, or the
\* first day with the smallest difference, and that difference.  The range
\* is halved, and of two equal differences the earlier day is kept, as the
\* loop keeps it (diff < bestDiff)
RECURSIVE MirrorLoop(_, _, _, _)
MirrorLoop(data, currentDay, lo, hi) ==
    IF lo > hi THEN Null
    ELSE IF lo = hi
    THEN IF lo = currentDay \/ lo \notin DOMAIN data THEN Null
         ELSE [doy |-> lo, diff |-> Abs(data[lo].daylight - data[currentDay].daylight)]
    ELSE LET mid == (lo + hi) \div 2
             first == MirrorLoop(data, currentDay, lo, mid)
             second == MirrorLoop(data, currentDay, mid + 1, hi)
         IN  IF first = Null THEN second
             ELSE IF second = Null THEN first
             ELSE IF second.diff < first.diff THEN second ELSE first

\* findOppositeDate(currentDate), with the answers of computeYearData and
\* getSummerSolstice
findOppositeDate(currentDate, host, data, solstice) ==
    LET daysInYear == Len(data)
        currentDay == getDayOfYear(host, currentDate)
        summerSolsticeDOY == getDayOfYear(host, solstice)
        isBeforeOrOnSolstice == currentDay <= summerSolsticeDOY
        otherHalfStart == IF isBeforeOrOnSolstice THEN summerSolsticeDOY + 1 ELSE 1
        otherHalfEnd == IF isBeforeOrOnSolstice THEN daysInYear ELSE summerSolsticeDOY - 1
        best == MirrorLoop(data, currentDay, otherHalfStart, otherHalfEnd)
    IN  IF daysInYear = 0 THEN Null
        ELSE IF currentDay \notin DOMAIN data THEN Null
        ELSE IF otherHalfStart > otherHalfEnd \/ best = Null THEN Null
        ELSE [date |-> MidnightOf(host, best.doy - 1)]

\* the moment of the summer solstice, in years that differ in it
SolsticeSamples == {At(170, 20, 51), At(171, 2, 42), At(171, 14, 58)}
MirrorDaySamples == 0..(DaysPerYear - 1)

InitMirror ==
    /\ \E host \in HostSamples, solstice \in SolsticeSamples, day \in MirrorDaySamples :
          args = [ fn |-> "findOppositeDate", currentDate |-> MidnightOf(host, day),
                   host |-> host, solstice |-> solstice,
                   yearData |-> MirrorYearData(solstice) ]
    /\ result = Null
    /\ OnlyCall

CallFindOppositeDate ==
    /\ args # Null /\ args.fn = "findOppositeDate" /\ result = Null
    /\ result' = Returns(findOppositeDate(args.currentDate, args.host,
                                          args.yearData, args.solstice))
    /\ UNCHANGED <<args, notCall>>

NextMirror == CallFindOppositeDate

(***************************************************************************)
(* findUpcomingSunriseMilestones and findUpcomingSunsetMilestones: the     *)
(* loop over the days, with the clock reading of the sunrise (or sunset)   *)
(* of each day, in minutes of the day, as getSunriseDecimalHours (or       *)
(* getSunsetDecimalHours) gives it: Num(minutes), or Null.                 *)
(***************************************************************************)
HOURS_SCAN_DAYS == 365

HourScans == {"findUpcomingSunriseMilestones", "findUpcomingSunsetMilestones"}

\* isExtremeLatitude of the two functions
ExtremeLatitude(latitude) == Abs(latitude) * 10 > 665

\* minHour and maxHour
MinHour(fn, latitude) ==
    IF fn = "findUpcomingSunriseMilestones"
    THEN (IF ExtremeLatitude(latitude) THEN 0 ELSE 3)
    ELSE 15
MaxHour(fn, latitude) ==
    IF fn = "findUpcomingSunriseMilestones" THEN 12
    ELSE (IF ExtremeLatitude(latitude) THEN 23 ELSE 22)

\* the loop over h that takes every hour the reading has fallen below or
\* reached for a crossing, whatever the reading of the day before
RECURSIVE HourCrossings_noStraddle(_, _, _, _, _, _)
HourCrossings_noStraddle(fn, h, maxHour, prev, curr, eventDate) ==
    IF h > maxHour THEN <<>>
    ELSE LET earlier == curr < h * 60
             later == curr >= h * 60
             before == IF fn = "findUpcomingSunriseMilestones"
                       THEN SunriseText("before", h) ELSE SunsetText("before", h)
             after == IF fn = "findUpcomingSunriseMilestones"
                      THEN SunriseText("after", h) ELSE SunsetText("after", h)
         IN  (IF earlier THEN <<Milestone(eventDate, before)>> ELSE <<>>)
             \o (IF later THEN <<Milestone(eventDate, after)>> ELSE <<>>)
             \o HourCrossings_noStraddle(fn, h + 1, maxHour, prev, curr, eventDate)

\* the loop over h from h on: the milestones pushed for one day
RECURSIVE HourCrossings(_, _, _, _, _, _)
HourCrossings(fn, h, maxHour, prev, curr, eventDate) ==
    IF h > maxHour THEN <<>>
    ELSE LET earlier == prev >= h * 60 /\ curr < h * 60
             later == prev < h * 60 /\ curr >= h * 60
             before == IF fn = "findUpcomingSunriseMilestones"
                       THEN SunriseText("before", h) ELSE SunsetText("before", h)
             after == IF fn = "findUpcomingSunriseMilestones"
                      THEN SunriseText("after", h) ELSE SunsetText("after", h)
         IN  (IF earlier THEN <<Milestone(eventDate, before)>> ELSE <<>>)
             \o (IF later THEN <<Milestone(eventDate, after)>> ELSE <<>>)
             \o HourCrossings(fn, h + 1, maxHour, prev, curr, eventDate)

\* how far a day is from the turn of the model's year, in days
CycDistOf(d) ==
    LET a == Mod(d, DaysPerYear)
    IN  IF a > DaysPerYear - a THEN DaysPerYear - a ELSE a

\* the clock readings of the days of the scan, the day before it included:
\* a wave over the year around a mean reading, a reading that never
\* changes, or a part of the year without the event
ClockWave(mean, swing, phase) ==
    [ k \in -1..HOURS_SCAN_DAYS |->
        Num(mean - swing + (2 * swing * CycDistOf(k + phase)) \div (DaysPerYear \div 2)) ]
ClockFlat(mean) == [ k \in -1..HOURS_SCAN_DAYS |-> Num(mean) ]
ClockWithGap(mean, swing, phase, from, to) ==
    [ k \in -1..HOURS_SCAN_DAYS |->
        IF from <= k /\ k <= to THEN Null ELSE ClockWave(mean, swing, phase)[k] ]

\* a reading that moves over midnight and back in the course of the year
ClockOverMidnight(swing, phase) ==
    [ k \in -1..HOURS_SCAN_DAYS |->
        Num(Mod(ClockWave(DayMin, swing, phase)[k].num, DayMin)) ]

\* a reading that is an hour later from one day on (the clocks of the zone
\* are put forward)
ClockWithJump(mean, swing, phase, from) ==
    [ k \in -1..HOURS_SCAN_DAYS |->
        IF k >= from THEN Num(ClockWave(mean, swing, phase)[k].num + 60)
        ELSE ClockWave(mean, swing, phase)[k] ]

HourSamples(fn) ==
    LET mean == IF fn = "findUpcomingSunriseMilestones" THEN 6 * 60 + 10 ELSE 18 * 60 + 10
    IN  { ClockWave(mean, 150, 0), ClockWave(mean, 150, 200), ClockWave(mean, 20, 90),
          ClockFlat(mean), ClockWithGap(mean, 330, 40, 100, 160),
          ClockOverMidnight(90, 60), ClockWithJump(mean, 150, 0, 13) }

InitHours ==
    /\ \E fn \in HourScans, latitude \in {45, 70}, count \in {1, 8} :
          \E hours \in HourSamples(fn) :
            /\ args = [ fn |-> fn, hours |-> hours, latitude |-> latitude, count |-> count ]
            /\ hoursPrev = hours[-1]
    /\ hoursOffset = 0
    /\ hourMilestones = <<>>
    /\ result = Null
    /\ OnlyHours

HoursLoopGoesOn == hoursOffset <= HOURS_SCAN_DAYS /\ Len(hourMilestones) < args.count

\* one iteration of the loop over the days
HoursDay ==
    /\ args # Null /\ args.fn \in HourScans /\ result = Null
    /\ HoursLoopGoesOn
    /\ LET currHours == args.hours[hoursOffset]
           isWrapAround ==
               \/ hoursPrev.num > 20 * 60 /\ currHours.num < 4 * 60
               \/ hoursPrev.num < 4 * 60 /\ currHours.num > 20 * 60
       IN  /\ hourMilestones' =
                IF hoursPrev # Null /\ currHours # Null /\ ~isWrapAround
                THEN hourMilestones \o
                     HourCrossings(args.fn, MinHour(args.fn, args.latitude),
                                   MaxHour(args.fn, args.latitude),
                                   hoursPrev.num, currHours.num, DateOf(hoursOffset, 0))
                ELSE hourMilestones
           /\ hoursPrev' = currHours
    /\ hoursOffset' = hoursOffset + 1
    /\ UNCHANGED <<args, result, notHours>>

\* the loop ends: return milestones
HoursReturn ==
    /\ args # Null /\ args.fn \in HourScans /\ result = Null
    /\ ~HoursLoopGoesOn
    /\ result' = Returns(hourMilestones)
    /\ UNCHANGED <<args, hoursVars, notHours>>

NextHours == HoursDay \/ HoursReturn

(***************************************************************************)
(* findSolsticeEquinoxMoment(year, targetLongitude): the bisection.        *)
(* Instants are seconds since the start of the approximate day of the      *)
(* event; the ecliptic longitude of the sun grows with time, so it is      *)
(* below the target before the moment of the event and above it after,     *)
(* and within 0.0001 degrees of it for about 8 seconds either side.        *)
(***************************************************************************)
MAX_BISECTIONS == 30
DaySec == 24 * 3600
NearSec == 8

\* diff = lambda - targetLongitude at an instant, as its sign and whether
\* Math.abs(diff) < 0.0001
DiffAt(mid, moment) ==
    [ negative |-> mid < moment, small |-> Abs(mid - moment) <= NearSec ]

MomentSamples ==
    { -6 * DaySec, -5 * DaySec, -2 * DaySec - 4711, 0, 20 * 3600 + 51 * 60 + 13,
      3 * DaySec + 1, 5 * DaySec - 3, 7 * DaySec }

InitBisect ==
    /\ \E moment \in MomentSamples :
          args = [fn |-> "findSolsticeEquinoxMoment", moment |-> moment]
    /\ bisLow = -5 * DaySec
    /\ bisHigh = 5 * DaySec
    /\ bisI = 0
    /\ result = Null
    /\ OnlyBisect

\* a midpoint taken a day past the upper end of the bracket
BisectMid_pastHigh == bisHigh + DaySec

BisectMid == (bisLow + bisHigh) \div 2

BisectGoesOn(n) == n < MAX_BISECTIONS

\* an iteration that returns mid
BisectFound ==
    /\ args # Null /\ args.fn = "findSolsticeEquinoxMoment" /\ result = Null
    /\ BisectGoesOn(bisI) /\ DiffAt(BisectMid, args.moment).small
    /\ result' = Returns(BisectMid)
    /\ UNCHANGED <<args, bisectVars, notBisect>>

\* an iteration that halves the interval
BisectHalve ==
    /\ args # Null /\ args.fn = "findSolsticeEquinoxMoment" /\ result = Null
    /\ BisectGoesOn(bisI) /\ ~DiffAt(BisectMid, args.moment).small
    /\ IF DiffAt(BisectMid, args.moment).negative
       THEN bisLow' = BisectMid /\ UNCHANGED bisHigh
       ELSE bisHigh' = BisectMid /\ UNCHANGED bisLow
    /\ bisI' = bisI + 1
    /\ UNCHANGED <<args, result, notBisect>>

\* the return after the loop
BisectExhausted ==
    /\ args # Null /\ args.fn = "findSolsticeEquinoxMoment" /\ result = Null
    /\ ~BisectGoesOn(bisI)
    /\ result' = Returns(BisectMid)
    /\ UNCHANGED <<args, bisectVars, notBisect>>

NextBisect == BisectFound \/ BisectHalve \/ BisectExhausted

(***************************************************************************)
(* The scans and searches together                                         *)
(***************************************************************************)
InitLoops == InitScan \/ InitDst \/ InitLocal \/ InitHours \/ InitBisect

NextLoops == NextScan \/ NextDst \/ NextLocal \/ NextHours \/ NextBisect

(***************************************************************************)
(* computeYearData(latitude, year) on the calendar of the engine: a Date   *)
(* made by new Date(year, 0, dayOfYear) is the record [year, ordinal] of   *)
(* the calendar day it falls on.                                           *)
(***************************************************************************)
\* a % b of JavaScript: the remainder has the sign of a
JsRem(a, b) == IF a >= 0 THEN a % b ELSE -((-a) % b)

isLeapYear(year) ==
    (JsRem(year, 4) = 0 /\ JsRem(year, 100) # 0) \/ JsRem(year, 400) = 0

getDaysInYear(year) == IF isLeapYear(year) THEN 366 ELSE 365

\* the days of a year of the (proleptic Gregorian) calendar of Date
CalendarDays(year) ==
    IF (Mod(year, 4) = 0 /\ Mod(year, 100) # 0) \/ Mod(year, 400) = 0 THEN 366 ELSE 365

\* new Date(year, 0, day): a year from 0 to 99 stands for 1900 + year, and
\* a day past the end of the year runs into the next year
NewDate(year, day) ==
    LET fullYear == IF 0 <= year /\ year <= 99 THEN 1900 + year ELSE year
    IN  IF day > CalendarDays(fullYear)
        THEN [year |-> fullYear + 1, ordinal |-> day - CalendarDays(fullYear)]
        ELSE [year |-> fullYear, ordinal |-> day]

\* getSunData(date, latitude): the SolarDay, as the day and place it is of
SolarDayOf(date, latitude) == [date |-> date, latitude |-> latitude]

YearDataOf(latitude, year) ==
    [ dayOfYear \in 1..getDaysInYear(year) |->
        SolarDayOf(NewDate(year, dayOfYear), latitude) ]

YearSamples ==
    {-400, -100, -4, -1, 0, 1, 4, 50, 96, 99, 100, 400, 1600, 1900, 2000, 2023, 2024, 2100}
YearLatitudeSamples == {-70, 0, 45, 66, 89}

InitYear ==
    /\ \E latitude \in YearLatitudeSamples, year \in YearSamples :
          args = [fn |-> "computeYearData", latitude |-> latitude, year |-> year]
    /\ result = Null
    /\ OnlyCall

CallComputeYearData ==
    /\ args # Null /\ args.fn = "computeYearData" /\ result = Null
    /\ result' = Returns(YearDataOf(args.latitude, args.year))
    /\ UNCHANGED <<args, notCall>>

NextYear == CallComputeYearData

(***************************************************************************)
(* resolveZone called on its own: each boundary is absent (null), an       *)
(* Invalid Date, or an instant before, in or after the day that begins at  *)
(* refMidnight.                                                            *)
(***************************************************************************)
ResolveMidnightSamples == {50 * DayMin - 40, 89 * DayMin + 720}
ResolveOffsetSamples == {-30, 0, 1, 360, 720, 1080, 1439, 1440, 1470}
ResolveTimeSamples(refMidnight) ==
    {Null, InvalidDate} \cup { DateAt(refMidnight + k) : k \in ResolveOffsetSamples }

InitResolve ==
    /\ \E refMidnight \in ResolveMidnightSamples, k \in 1..4, noonAlt \in NoonAltSamples :
         \E morningTime \in ResolveTimeSamples(refMidnight),
            eveningTime \in ResolveTimeSamples(refMidnight) :
            args = [ fn |-> "resolveZone", morningTime |-> morningTime,
                     eveningTime |-> eveningTime, threshold |-> Thresholds[k],
                     refMidnight |-> refMidnight, noonAlt |-> noonAlt ]
    /\ result = Null
    /\ OnlyCall

CallResolveZone ==
    /\ args # Null /\ args.fn = "resolveZone" /\ result = Null
    /\ result' = Returns(resolveZone(args.morningTime, args.eveningTime, args.threshold,
                                     args.refMidnight, args.noonAlt))
    /\ UNCHANGED <<args, notCall>>

NextResolve == CallResolveZone

(***************************************************************************)
(* getDayOfYear called on the local midnight of each day of the year, in   *)
(* each zone the runtime may be in.  args.day counts the days of the year  *)
(* from 0 (January 1).                                                     *)
(***************************************************************************)
InitDoy ==
    /\ \E host \in HostSamples, day \in 0..(DaysPerYear - 1) :
          args = [ fn |-> "getDayOfYear", host |-> host, day |-> day,
                   date |-> MidnightOf(host, day) ]
    /\ result = Null
    /\ OnlyCall

CallGetDayOfYear ==
    /\ args # Null /\ args.fn = "getDayOfYear" /\ result = Null
    /\ result' = Returns(getDayOfYear(args.host, args.date))
    /\ UNCHANGED <<args, notCall>>

NextDoy == CallGetDayOfYear

(***************************************************************************)
(* rotateBands called on its own: band lists of one or two bands within    *)
(* the day, and the shifts that a time zone (UTC-12 to UTC+14) and a       *)
(* longitude (-180 to 180, 12 hours either way) can make, in minutes.      *)
(***************************************************************************)
RotateEdgeSamples == {0, 90, 360, 720, 1080, 1350, DAY_HOURS}
RotateBandSamples ==
    { b \in [morning : RotateEdgeSamples, evening : RotateEdgeSamples] :
        b.morning < b.evening }
RotateListSamples ==
    { <<b>> : b \in RotateBandSamples }
      \cup { <<Band(0, 90), Band(1350, DAY_HOURS)>>, <<Band(90, 360), Band(720, 1080)>> }
RotateShiftSamples ==
    { 60 * k : k \in -24..26 } \cup {-1439, -725, -61, -1, 1, 45, 330, 1441}

InitRotate ==
    /\ \E bands \in RotateListSamples, shift \in RotateShiftSamples :
          args = [fn |-> "rotateBands", bands |-> bands, shift |-> shift]
    /\ result = Null
    /\ OnlyCall

CallRotateBands ==
    /\ args # Null /\ args.fn = "rotateBands" /\ result = Null
    /\ result' = Returns(rotateBands(args.bands, args.shift))
    /\ UNCHANGED <<args, notCall>>

NextRotate == CallRotateBands

(***************************************************************************)
(* App: the settings, the effect that loads them, the request for the      *)
(* position of the browser and the handlers of LatitudeSelector.  Degrees  *)
(* are kept in tenths, the coordinates of a position in hundredths.  The   *)
(* effect that saves the settings runs after every change of them once     *)
(* settingsLoaded is true; it is part of the step that makes the change.   *)
(***************************************************************************)
Settings(lat, lng, tz) == [latitude |-> lat, longitude |-> lng, timezone |-> tz]

\* let latitude = $state(59.9) ...: the defaults, Oslo
DefaultSettings == Settings(599, 107, "Europe/Oslo")

\* what a JSON text in the storage parses to; a field may be missing
\* (Undefined), and a text that does not parse is Garbage
Garbage == [garbage |-> TRUE]
StoredSamples ==
    { Null, Garbage,
      [latitude |-> Num(697), longitude |-> Num(190), timezone |-> [text |-> "Europe/Oslo"]],
      [latitude |-> Num(-234), longitude |-> Undefined, timezone |-> Undefined] }

\* JSON.stringify of the settings
Stringify(st) ==
    [latitude |-> Num(st.latitude), longitude |-> Num(st.longitude),
     timezone |-> [text |-> st.timezone]]

\* the effect that saves: the storage after a step that leaves the settings st
SaveSettings(loaded, st, item) == IF loaded THEN Stringify(st) ELSE item

\* Math.round(x * 10) / 10 of a coordinate in hundredths, in tenths
RoundToTenth(c) == (c + 5) \div 10

\* what the browser may answer: a position and the zone of the runtime
PositionSamples ==
    { [latitude |-> 4071, longitude |-> -7401, zone |-> "America/New_York"],
      [latitude |-> -3387, longitude |-> 15121, zone |-> "Australia/Sydney"] }

\* what the user may type: NaN (Null), a value out of range, values in range
LatitudeInputs == {Null, Num(-910), Num(455), Num(-335)}
LongitudeInputs == {Null, Num(1850), Num(-1221)}
TimezoneInputs == {"Asia/Kolkata", "America/Los_Angeles"}
PresetSamples ==
    { [latitude |-> 782, longitude |-> Num(156), timezone |-> "Arctic/Longyearbyen"],
      [latitude |-> 0, longitude |-> Num(-900), timezone |-> "Pacific/Galapagos"] }

NoChoice == [latitude |-> Null, longitude |-> Null, timezone |-> Null]

InitApp ==
    /\ appState = DefaultSettings
    /\ settingsLoaded = FALSE
    /\ localStorage \in StoredSamples
    /\ geolocation \in {"unsupported", "idle"}
    /\ chosen = NoChoice
    /\ OnlyApp

\* the effect that loads the settings, on mount
LoadSettings ==
    /\ appState # Null /\ ~settingsLoaded
    /\ settingsLoaded' = TRUE
    /\ IF localStorage # Null
       THEN /\ appState' =
                 IF localStorage = Garbage THEN appState
                 ELSE Settings(
                        IF localStorage.latitude # Undefined
                        THEN localStorage.latitude.num ELSE appState.latitude,
                        IF localStorage.longitude # Undefined
                        THEN localStorage.longitude.num ELSE appState.longitude,
                        IF localStorage.timezone # Undefined
                        THEN localStorage.timezone.text ELSE appState.timezone)
            /\ UNCHANGED geolocation
       ELSE /\ UNCHANGED appState
            /\ geolocation' = IF geolocation = "unsupported" THEN geolocation ELSE "requested"
    /\ localStorage' = SaveSettings(TRUE, appState', localStorage)
    /\ UNCHANGED <<chosen, notApp>>

\* the success callback of getCurrentPosition
GeolocationSuccess(position) ==
    /\ appState # Null /\ geolocation = "requested"
    /\ appState' = Settings(RoundToTenth(position.latitude),
                            RoundToTenth(position.longitude), position.zone)
    /\ geolocation' = "answered"
    /\ localStorage' = SaveSettings(settingsLoaded, appState', localStorage)
    /\ UNCHANGED <<settingsLoaded, chosen, notApp>>

\* the error callback of getCurrentPosition
GeolocationError ==
    /\ appState # Null /\ geolocation = "requested"
    /\ geolocation' = "failed"
    /\ UNCHANGED <<appState, settingsLoaded, localStorage, chosen, notApp>>

\* the user's change of the settings to st, of which fields were chosen
UserSets(st, fields) ==
    /\ appState # Null /\ settingsLoaded
    /\ appState' = st
    /\ chosen' = [ f \in {"latitude", "longitude", "timezone"} |->
                     IF f \notin fields THEN chosen[f]
                     ELSE IF f = "timezone" THEN [text |-> st[f]] ELSE Num(st[f]) ]
    /\ localStorage' = SaveSettings(settingsLoaded, st, localStorage)
    /\ UNCHANGED <<settingsLoaded, geolocation, notApp>>

handleLatitudeInput(value) ==
    /\ value # Null /\ value.num >= -900 /\ value.num <= 900
    /\ UserSets([appState EXCEPT !.latitude = value.num], {"latitude"})

handleLongitudeInput(value) ==
    /\ value # Null /\ value.num >= -1800 /\ value.num <= 1800
    /\ UserSets([appState EXCEPT !.longitude = value.num], {"longitude"})

handlePresetChange(preset) ==
    UserSets(Settings(preset.latitude,
                      IF preset.longitude \in {Null, Undefined} THEN 0 ELSE preset.longitude.num,
                      preset.timezone),
             {"latitude", "longitude", "timezone"})

handleTimezoneChange(value) ==
    UserSets([appState EXCEPT !.timezone = value], {"timezone"})

NextApp ==
    \/ LoadSettings
    \/ \E position \in PositionSamples : GeolocationSuccess(position)
    \/ GeolocationError
    \/ \E value \in LatitudeInputs : handleLatitudeInput(value)
    \/ \E value \in LongitudeInputs : handleLongitudeInput(value)
    \/ \E preset \in PresetSamples : handlePresetChange(preset)
    \/ \E value \in TimezoneInputs : handleTimezoneChange(value)

InitSun ==
    /\ \E date \in DateSamples, riseArc \in ArcSamples,
          setArc \in ArcSamples, altitude \in AltitudeSamples :
          sunIn = [ date |-> date,
                    times |-> SunCalcTimes(date, riseArc, setArc),
                    altitude |-> altitude ]
    /\ sunOut = Null
    /\ OnlySun

CallGetSunData ==
    /\ sunIn # Null
    /\ sunOut = Null
    /\ sunOut' = getSunData(sunIn.date, sunIn.times, sunIn.altitude)
    /\ UNCHANGED <<sunIn, notSun>>

NextSun == CallGetSunData

vars == <<sunVars, lruVars, scanVars, dstVars, callVars, localVars, hoursVars, bisectVars, appVars>>

SpecSun == InitSun /\ [][NextSun]_vars

SpecLRU == InitLRU /\ [][NextLRU]_vars

SpecLRU0 == InitLRU0 /\ [][NextLRU]_vars

SpecScan == InitScan /\ [][NextScan]_vars

SpecDst == InitDst /\ [][NextDst]_vars

SpecMerge == InitMerge /\ [][NextMerge]_vars

SpecBands == InitBands /\ [][NextBands]_vars

SpecMirror == InitMirror /\ [][NextMirror]_vars

SpecLocal == InitLocal /\ [][NextLocal]_vars

SpecZone == InitZone /\ [][NextZone]_vars

SpecLoops == InitLoops /\ [][NextLoops]_vars

SpecYear == InitYear /\ [][NextYear]_vars

SpecResolve == InitResolve /\ [][NextResolve]_vars

SpecHours == InitHours /\ [][NextHours]_vars

SpecBisect == InitBisect /\ [][NextBisect]_vars

SpecDoy == InitDoy /\ [][NextDoy]_vars

SpecRotate == InitRotate /\ [][NextRotate]_vars

SpecApp == InitApp /\ [][NextApp]_vars

(***************************************************************************)
(* getSunData                                                              *)
(***************************************************************************)
Present(d) == d # Null /\ d # InvalidDate
ProviderPolar == isNaN(sunIn.times.sunrise) \/ isNaN(sunIn.times.sunset)

\* C1: the SolarDay getSunData returns never has isPolarDay and isPolarNight
\* both true, and its sunrise and sunset are both null exactly when one of
\* the two flags is true; otherwise both are present.
SolarDayFlagsAndTimes ==
    sunOut # Null =>
        /\ ~(sunOut.isPolarDay /\ sunOut.isPolarNight)
        /\ (sunOut.sunrise = Null /\ sunOut.sunset = Null)
               <=> (sunOut.isPolarDay \/ sunOut.isPolarNight)
        /\ (sunOut.sunrise = Null) <=> (sunOut.sunset = Null)
        /\ ~(sunOut.isPolarDay \/ sunOut.isPolarNight)
               => Present(sunOut.sunrise) /\ Present(sunOut.sunset)

\* a polar day reported although the provider gave a sunset (no sunrise)
SolarDayFlagsAndTimesWitness ==
    /\ sunOut # Null
    /\ sunOut.isPolarDay
    /\ isNaN(sunIn.times.sunrise) /\ ~isNaN(sunIn.times.sunset)
    /\ sunOut.sunset = Null

\* C2: the daylight duration d of getSunData is within 0..86,400,000 ms; when
\* the provider reports no sunrise or no sunset d is 86,400,000 if the noon
\* altitude is > 0 (polar day) and 0 otherwise (polar night); in all other
\* cases d is sunset - sunrise.
DaylightDuration ==
    sunOut # Null =>
        /\ 0 <= sunOut.daylight /\ sunOut.daylight <= 86400000
        /\ (ProviderPolar /\ sunIn.altitude > 0)
               => sunOut.daylight = 86400000 /\ sunOut.isPolarDay
        /\ (ProviderPolar /\ ~(sunIn.altitude > 0))
               => sunOut.daylight = 0 /\ sunOut.isPolarNight
        /\ ~ProviderPolar
               => sunOut.daylight = TimeDiff(sunIn.times.sunset, sunIn.times.sunrise)

\* no sunrise, noon altitude exactly 0: a polar night of 0 ms
DaylightDurationWitness ==
    /\ sunOut # Null
    /\ ProviderPolar
    /\ sunIn.altitude = 0
    /\ sunOut.daylight = 0

(***************************************************************************)
(* LRUCache                                                                *)
(***************************************************************************)
Before == last.before.map
Evicted == Lost(Before, map)
IsSet == last.op = "set"
IsGet == last.op = "get"
WasPresent == MapHas(Before, last.key)
WasFull == Len(Before) >= max

\* C3: for a cache constructed with any non-negative integer maximum, the
\* size never exceeds the maximum after any sequence of has/get/set/clear.
SizeWithinMax == LRUSize(map) <= max

\* C4: a set of a key that is not in a full cache evicts exactly one entry,
\* the one whose latest touch (successful get, or set) is the oldest; a set
\* of a new key into a cache that is not full evicts nothing.
EvictsLeastRecentlyTouched ==
    (IsSet /\ ~WasPresent) =>
        /\ WasFull => /\ last.before.touch # <<>>
                      /\ Evicted = {Head(last.before.touch)}
        /\ ~WasFull => Evicted = {}
        /\ MapHas(map, last.key)

\* a full cache of two or more entries took a new key
EvictsLeastRecentlyTouchedWitness ==
    /\ IsSet /\ ~WasPresent /\ WasFull
    /\ max >= 2
    /\ Evicted = {Head(last.before.touch)}
    /\ Len(map) = max

\* C5: after a get(k) that hits, k is the most recently used entry: no later
\* set evicts k while an entry that was present at the get has neither been
\* evicted nor touched again, and with capacity >= 2 a set of a new key that
\* directly follows the get does not evict k.
HitRefreshesRecency ==
    /\ (IsGet /\ WasPresent) => map[Len(map)].key = last.key
    /\ IsSet => \A k \in Evicted :
                    last.before.pending[k].active
                        => last.before.pending[k].others = {}
    /\ (IsSet /\ ~WasPresent /\ last.prevHit # Undefined /\ max >= 2)
           => last.prevHit \in KeysOf(map)

\* a get hit the oldest entry of a full cache and the next call, a set of a
\* new key, evicted another entry
HitRefreshesRecencyWitness ==
    /\ IsSet /\ ~WasPresent /\ WasFull /\ max >= 2
    /\ last.prevHit # Undefined
    /\ Evicted # {}
    /\ last.prevHit \in KeysOf(map)
    /\ last.before.pending[last.prevHit].others # {}

\* C6: set(k, v) of a key already present replaces k's value by v and makes
\* k the most recently used entry; it evicts nothing and leaves the size and
\* the other entries as they were, also when the cache is full.
SetExistingUpdatesInPlace ==
    (IsSet /\ WasPresent) =>
        /\ MapGet(map, last.key) = last.value
        /\ map[Len(map)].key = last.key
        /\ Evicted = {}
        /\ LRUSize(map) = LRUSize(Before)
        /\ MapDelete(map, last.key) = MapDelete(Before, last.key)

\* the oldest entry of a full cache was set to another value
SetExistingUpdatesInPlaceWitness ==
    /\ IsSet /\ WasPresent /\ WasFull /\ max >= 2
    /\ Before[1].key = last.key
    /\ Before[1].value # last.value

\* C7: get never changes the stored keys or their values: a miss returns
\* undefined and leaves contents, size and order unchanged; a hit changes
\* nothing but the place of the key it hit.
GetKeepsContents ==
    IsGet =>
        /\ KeysOf(map) = KeysOf(Before)
        /\ \A k \in Keys : MapGet(map, k) = MapGet(Before, k)
        /\ LRUSize(map) = LRUSize(Before)
        /\ ~WasPresent => last.ret = Undefined /\ map = Before
        /\ WasPresent => MapDelete(map, last.key) = MapDelete(Before, last.key)

\* a get missed on a full cache
GetKeepsContentsWitness ==
    /\ IsGet /\ ~WasPresent /\ WasFull /\ max >= 2
    /\ last.ret = Undefined

\* C8: get(k) returns undefined or the value of the latest set(k, .) that no
\* clear and no eviction of k followed; never another key's value, never a
\* value that was replaced.
GetReturnsLatestSet ==
    IsGet =>
        /\ last.ret # Undefined => last.ret = last.before.stored[last.key]
        /\ last.ret = Undefined => last.before.stored[last.key] = Undefined

\* a get returned a key's value while another entry held a different one
GetReturnsLatestSetWitness ==
    /\ IsGet /\ last.ret # Undefined
    /\ \E i \in DOMAIN Before :
          Before[i].key # last.key /\ Before[i].value # last.ret

(***************************************************************************)
(* The daylight scan                                                       *)
(***************************************************************************)
Returned == pc = "done"

IsMoreThan(m) == \E h \in 1..23 : m.description = MoreThanText(h)
IsLessThan(m) == \E h \in 1..23 : m.description = LessThanText(h)

\* the year's entry for the day `off` days after currentDate, the year
\* taken cyclically
DayAt(off) ==
    yearData[((currentDOY - 1 + off + 2 * Len(yearData)) % Len(yearData)) + 1]

\* the day `off` days after currentDate is the day of the transition
TransitionOn(type, off) ==
    LET prevData == DayAt(off - 1)
        currData == DayAt(off)
        prevHours == prevData.daylight
        currHours == currData.daylight
    IN  CASE type = "polar_night_begin" ->
               \/ ~prevData.isPolarNight /\ currData.isPolarNight
               \/ prevHours >= POLAR_NIGHT_THRESHOLD /\ currHours < POLAR_NIGHT_THRESHOLD
          [] type = "polar_night_end" ->
               \/ prevData.isPolarNight /\ ~currData.isPolarNight
               \/ prevHours < POLAR_NIGHT_THRESHOLD /\ currHours >= POLAR_NIGHT_THRESHOLD
          [] type = "midnight_sun_begin" ->
               \/ ~prevData.isPolarDay /\ currData.isPolarDay
               \/ prevHours <= MIDNIGHT_SUN_THRESHOLD /\ currHours > MIDNIGHT_SUN_THRESHOLD
          [] type = "midnight_sun_end" ->
               \/ prevData.isPolarDay /\ ~currData.isPolarDay
               \/ prevHours > MIDNIGHT_SUN_THRESHOLD /\ currHours <= MIDNIGHT_SUN_THRESHOLD

\* the milestone m keeps clear of the transitions on the days in `days`
ClearOfTransitions(m, days) ==
    /\ IsMoreThan(m) =>
         \A t \in days :
           /\ t - m.date \in 0..SUPPRESSION_WINDOW => ~TransitionOn("midnight_sun_begin", t)
           /\ m.date - t \in 0..AFTER_WINDOW => ~TransitionOn("polar_night_end", t)
    /\ IsLessThan(m) =>
         \A t \in days :
           /\ t - m.date \in 0..SUPPRESSION_WINDOW => ~TransitionOn("polar_night_begin", t)
           /\ m.date - t \in 0..AFTER_WINDOW => ~TransitionOn("midnight_sun_end", t)

\* C9: the list a scan returns never holds two milestones with the same
\* description (same direction and hour, or same kind of extreme event).
\* The third pass appends 'Midnight sun ends' (and the like) whenever its
\* partner is in the list, whether or not it is already there.
NoDuplicateDescriptions ==
    Returned =>
      \A i, j \in DOMAIN milestones :
        i # j => milestones[i].description # milestones[j].description

\* C10: in the returned list no 'More than h' milestone is dated on or within
\* SUPPRESSION_WINDOW days before a midnight-sun-begin transition or within
\* 7 days on or after a polar-night-end transition, and no 'Less than h'
\* milestone within the window before a polar-night-begin or within 7 days
\* on or after a midnight-sun-end.  The scan compares offsets of one pass
\* over the year only, so a transition shortly before currentDate, or
\* shortly after the last scanned day, suppresses nothing.
SuppressionRespected ==
    Returned =>
      \A i \in DOMAIN milestones :
        ClearOfTransitions(milestones[i],
            (milestones[i].date - AFTER_WINDOW)..(milestones[i].date + SUPPRESSION_WINDOW))

\* the same for the transitions on the scanned days (offsets 0 to
\* yearData.length - 1) alone: those the scan does respect
SuppressionRespectedInScan ==
    Returned =>
      \A i \in DOMAIN milestones :
        ClearOfTransitions(milestones[i], 0..(Len(yearData) - 1))

(***************************************************************************)
(* The DST scan                                                            *)
(***************************************************************************)
DstReturned == dstPc = "done"

\* the UTC offset of the target zone at its own local noon of its day d
TargetNoonOffset(d) == OffsetAt(dstIn.timezone, NoonOf(dstIn.timezone, d))

TransitionDay(d) == TargetNoonOffset(d) # TargetNoonOffset(d - 1)

DstWindow == dstIn.currentDate..(dstIn.currentDate + DST_SCAN_DAYS)

\* a transition's date (the runtime's midnight of the runtime's day t.date)
\* is on day d: as the runtime's calendar has it (the day the list shows),
\* or as the target zone's calendar has it
DatedOn(t, d) ==
    \/ d = t.date
    \/ d = DayIn(dstIn.timezone, MidnightOf(dstIn.host, t.date))

\* the transitions reported are those of the days of the window on which the
\* target zone's noon offset differs from the day before, up to count of
\* them, each labelled by the sign and the size of the change
ReportsTransitionDays ==
    /\ \A i \in DOMAIN transitions :
         \E d \in (transitions[i].date - 1)..(transitions[i].date + 1) :
             /\ DatedOn(transitions[i], d)
             /\ TransitionDay(d)
             /\ transitions[i].description
                  = DSTDescription(TargetNoonOffset(d) - TargetNoonOffset(d - 1))
    /\ \A d \in DstWindow :
         /\ TransitionDay(d)
         /\ Cardinality({e \in dstIn.currentDate..d : TransitionDay(e)}) <= dstIn.count
         => \E i \in DOMAIN transitions : DatedOn(transitions[i], d)

\* C11: findUpcomingDSTChanges reports a transition dated on calendar day d
\* of the target timezone exactly when the zone's UTC offset at local noon of
\* d differs from that at local noon of d - 1 (d in the 0..400-day window,
\* until count transitions are reported), labelled 'DST begins' with a
\* positive change or 'DST ends', with the change in hours.  The scan takes
\* noon with new Date(y, m, d, 12, 0, 0), which is noon in the zone of the
\* runtime, not of the target.
DSTOnTargetTransitionDays ==
    DstReturned /\ dstIn.timezone.valid => ReportsTransitionDays

\* the same when the runtime's zone is the target zone: there it holds
DSTOnTransitionDaysInOwnZone ==
    DstReturned /\ dstIn.timezone.valid /\ dstIn.host = dstIn.timezone
        => ReportsTransitionDays

(***************************************************************************)
(* The merged list                                                         *)
(***************************************************************************)
Called(fn) == args # Null /\ args.fn = fn /\ result # Null

\* C12: the merged list is sorted by (date, priority): calendar dates do not
\* decrease and, on one calendar date, priorities do not decrease.  The
\* sort compares getTime(): an equinox or solstice carries its exact moment
\* and sorts after the midnight-dated milestones of its day.
SortedByDateAndPriority ==
    Called("upcomingDates") =>
      \A i, j \in DOMAIN result.value :
        i < j =>
          \/ result.value[i].dateKey < result.value[j].dateKey
          \/ /\ result.value[i].dateKey = result.value[j].dateKey
             /\ result.value[i].priority <= result.value[j].priority

\* the calendar dates alone do not decrease, and milestones of one moment
\* are in priority order
SortedByMomentAndPriority ==
    Called("upcomingDates") =>
      \A i, j \in DOMAIN result.value :
        i < j =>
          /\ result.value[i].dateKey <= result.value[j].dateKey
          /\ result.value[i].date = result.value[j].date
               => result.value[i].priority <= result.value[j].priority

(***************************************************************************)
(* The twilight bands                                                      *)
(***************************************************************************)
ZoneKinds == {"daylight", "civil", "nautical", "astronomical"}

BandsReturned == Called("twilightData") /\ result # Throws

SortedByStart(bands) ==
    \A i, j \in DOMAIN bands : i < j => bands[i].morning <= bands[j].morning

NonOverlapping(bands) ==
    \A i, j \in DOMAIN bands :
        i # j => bands[i].evening <= bands[j].morning \/ bands[j].evening <= bands[i].morning

\* C13: for every day, zone kind and timezone/longitude combination the band
\* list of the zone (resolveZone, then rotateBands) is sorted by start hour,
\* its bands do not overlap, and it has at most 2 bands.  A band that wraps
\* forward past midnight is pushed as [m, 24] and then [0, e - 24].
BandsSortedDisjointAtMostTwo ==
    BandsReturned =>
      \A kind \in ZoneKinds :
        /\ SortedByStart(result.value[kind])
        /\ NonOverlapping(result.value[kind])
        /\ Len(result.value[kind]) <= 2

\* without the order: the bands do not overlap and are at most 2
BandsDisjointAtMostTwo ==
    BandsReturned =>
      \A kind \in ZoneKinds :
        /\ NonOverlapping(result.value[kind])
        /\ Len(result.value[kind]) <= 2

AsSet(bands) == { bands[i] : i \in DOMAIN bands }

\* a set of intervals after merging adjacent fragments
RECURSIVE MergeAdjacent(_)
MergeAdjacent(S) ==
    IF \E a, b \in S : a # b /\ a.evening = b.morning
    THEN LET pair == CHOOSE p \in S \X S : p[1] # p[2] /\ p[1].evening = p[2].morning
         IN  MergeAdjacent((S \ {pair[1], pair[2]}) \cup {Band(pair[1].morning, pair[2].evening)})
    ELSE S

RotatesBack(bands, shift) ==
    MergeAdjacent(AsSet(rotateBands(rotateBands(bands, shift), -shift)))
        = MergeAdjacent(AsSet(bands))

\* C14: band rotation is invertible: for every band list of resolveZone and
\* every shift s, rotateBands(rotateBands(bands, s), -s) is bands as a set of
\* intervals after merging adjacent fragments.  A band that lies outside
\* [0, 24] entirely after the shift (m + s >= 24 or e + s <= 0), as the
\* wrapped fragment of a band does on the way back, is stretched to the end
\* of the day instead of being moved.
RotationInvertible ==
    BandsReturned =>
      \A kind \in ZoneKinds : RotatesBack(NaturalZones(args)[kind], ShiftOf(args))

\* no band wraps past midnight under the shift
StaysInDay(bands, shift) ==
    \A i \in DOMAIN bands :
        bands[i].morning + shift >= 0 /\ bands[i].evening + shift <= DAY_HOURS

\* the rotation is undone where no band wraps, and for the whole day
RotationInvertibleInDay ==
    BandsReturned =>
      \A kind \in ZoneKinds :
        \/ StaysInDay(NaturalZones(args)[kind], ShiftOf(args))
        \/ NaturalZones(args)[kind] = <<Band(0, DAY_HOURS)>> /\ Abs(ShiftOf(args)) <= DAY_HOURS
        => RotatesBack(NaturalZones(args)[kind], ShiftOf(args))

\* every hour covered by a band of inner is covered by a band of outer
CoveredBy(inner, outer) ==
    \A i \in DOMAIN inner : \E j \in DOMAIN outer :
        outer[j].morning <= inner[i].morning /\ inner[i].evening <= outer[j].evening

\* C15: with the provider's events nested (astronomical dawn <= nautical
\* dawn <= civil dawn <= sunrise <= sunset <= civil dusk <= nautical dusk <=
\* astronomical dusk wherever defined), every hour covered by a daylight band
\* is covered by a civil band, every hour of a civil band by a nautical band
\* and every hour of a nautical band by an astronomical band.
BandsNested ==
    BandsReturned =>
      /\ CoveredBy(result.value.daylight, result.value.civil)
      /\ CoveredBy(result.value.civil, result.value.nautical)
      /\ CoveredBy(result.value.nautical, result.value.astronomical)

\* a day whose daylight wraps past midnight in the selected zone, inside a
\* civil twilight that has events of its own
BandsNestedWitness ==
    /\ BandsReturned
    /\ Len(result.value.daylight) = 2
    /\ Len(result.value.civil) = 2
    /\ args.arcs[1] # NoArc /\ args.arcs[2] # NoArc
    /\ args.arcs[1].ms < args.arcs[2].ms
    /\ result.value.daylight # result.value.civil

(***************************************************************************)
(* The mirror date                                                         *)
(***************************************************************************)
MirrorReturned == Called("findOppositeDate") /\ result.value # Null

\* the days of the year (1-based) of the selected date, of its mirror and of
\* the solstices, on the calendar of the runtime
SelectedDOY == DayIn(args.host, args.currentDate) + 1
MirrorDOY == DayIn(args.host, result.value.date) + 1
SummerDOY == DayIn(args.host, args.solstice) + 1
WinterDOY == DayIn(args.host, args.solstice + YearMin \div 2) + 1

\* the half of the year of a day, split at the day of the summer solstice
HalfOf(doy) == IF doy <= SummerDOY THEN 1 ELSE 2

DaylightGap(doy) ==
    Abs(args.yearData[doy].daylight - args.yearData[SelectedDOY].daylight)

\* C16: for every date d, findOppositeDate(d) returns a day of the same year
\* in the half of the year (split at the day of the summer solstice) that
\* does not contain d, never d itself, whose daylight at latitude 45 is
\* closest to that of d among all days of that half.
MirrorInOtherHalfAndClosest ==
    Called("findOppositeDate") =>
      /\ result.value # Null
      /\ MirrorDOY \in 1..DaysPerYear
      /\ HalfOf(MirrorDOY) # HalfOf(SelectedDOY)
      /\ MirrorDOY # SelectedDOY
      /\ \A doy \in 1..DaysPerYear :
           HalfOf(doy) = HalfOf(MirrorDOY) => DaylightGap(MirrorDOY) <= DaylightGap(doy)

\* the runtime's zone has no daylight saving time
HostWithoutDST == args.host.shift = 0

\* in a zone without daylight saving time the mirror is in the other half,
\* is not d, and is closest among the days of that half other than the day
\* of the summer solstice
MirrorClosestOfSearchedDays ==
    Called("findOppositeDate") /\ HostWithoutDST =>
      /\ result.value # Null
      /\ MirrorDOY \in 1..DaysPerYear
      /\ HalfOf(MirrorDOY) # HalfOf(SelectedDOY)
      /\ MirrorDOY # SelectedDOY
      /\ \A doy \in (1..DaysPerYear) \ {SummerDOY} :
           HalfOf(doy) = HalfOf(MirrorDOY) => DaylightGap(MirrorDOY) <= DaylightGap(doy)

\* the days get longer from the winter solstice to the summer solstice
Lengthening(doy) == doy > WinterDOY \/ doy < SummerDOY
OnSolstice(doy) == doy \in {SummerDOY, WinterDOY}

\* C17: for every selected date the mirror date is on the opposite side of
\* the winter solstice: one of the two is in the period of shortening days
\* before it and the other in the period of lengthening days after it, also
\* for the dates from the winter solstice to December 31 and in early
\* January.  (A date on the day of a solstice counts for either side.)
MirrorAcrossWinterSolstice ==
    MirrorReturned =>
      \/ OnSolstice(SelectedDOY) \/ OnSolstice(MirrorDOY)
      \/ Lengthening(SelectedDOY) # Lengthening(MirrorDOY)

\* the same for the dates up to the winter solstice, in a zone without
\* daylight saving time
MirrorAcrossBeforeWinterSolstice ==
    MirrorReturned /\ HostWithoutDST /\ SelectedDOY < WinterDOY =>
      \/ OnSolstice(SelectedDOY) \/ OnSolstice(MirrorDOY)
      \/ Lengthening(SelectedDOY) # Lengthening(MirrorDOY)

(***************************************************************************)
(* dateAtLocalInTimezone                                                   *)
(***************************************************************************)
LocalReturned == Called("dateAtLocalInTimezone") /\ result # Throws

\* the wall-clock reading asked for, in minutes of the zone's standard-time
\* year, and whether daylight saving time skips it
AskedWall == args.day * DayMin + args.hour * 60 + args.min
Skipped ==
    /\ args.timezone.shift > 0
    /\ args.timezone.from <= AskedWall
    /\ AskedWall < args.timezone.from + args.timezone.shift

\* the returned instant reads as the day and time asked for: on the zone's
\* clock, or as the time elapsed since the midnight getHourInTimezone finds
ReadsAsAsked ==
    /\ DayIn(args.timezone, result.value) = args.day
    /\ \/ MinuteIn(args.timezone, result.value) = args.hour * 60 + args.min
       \/ getHourInTimezone(DateAt(result.value), args.timezone, args.h24)
             = Returns(args.hour * 60 + args.min)

\* the returned instant is no further from the instant of the change than
\* the clocks move
NearTheChange ==
    Abs(result.value - (args.timezone.from - args.timezone.std)) <= args.timezone.shift

\* C18: for every time zone, days with a daylight saving change included,
\* and every local time (day, hour, minute) that exists in the zone, the
\* instant dateAtLocalInTimezone returns reads in the zone as exactly that
\* day, hour and minute; for a skipped local time it is the nearest valid
\* instant.
LocalRoundTrip ==
    LocalReturned => IF Skipped THEN NearTheChange ELSE ReadsAsAsked

\* the zone has one UTC offset from the midnight of the day to the next
\* (looked at every half hour)
NoChangeOnDay ==
    \A k \in 0..48 :
        OffsetAt(args.timezone, MidnightOf(args.timezone, args.day) + 30 * k)
            = OffsetAt(args.timezone, MidnightOf(args.timezone, args.day))

\* the round trip holds on the days on which the clocks do not change, where
\* the formatter prints midnight as hour 00
LocalRoundTripWithoutChange ==
    LocalReturned /\ NoChangeOnDay /\ ~args.h24 => ReadsAsAsked

\* the machine returns what the operator dateAtLocalInTimezone computes
LocalStepsAgree ==
    Called("dateAtLocalInTimezone") =>
        result = dateAtLocalInTimezone(args.day, args.hour, args.min, args.timezone, args.h24)

(***************************************************************************)
(* An invalid time zone                                                    *)
(***************************************************************************)
ZoneCalled ==
    /\ args # Null /\ args.fn \in ZoneFunctions /\ "date" \in DOMAIN args
    /\ result # Null

FormattingCalls == {"formatTimeInTimezone", "formatTimeInTz"}

\* HH:MM of the UTC clock at the instant of the call
UTCRendering == ClockText(Mod(InstantOf(args.date), DayMin))

ReturnsUTCRendering ==
    /\ result # Throws
    /\ IF args.fn = "formatTimeInTz"
       THEN result.value # Null /\ result.value.text = UTCRendering
       ELSE result.value = UTCRendering

\* C19: given an invalid or unsupported IANA time zone identifier (and a
\* valid date), no call that depends on the time zone raises an exception
\* (time formatting, calendar-day lookup, local time to instant, hour of the
\* day), and each formatting call returns the UTC-based rendering of the
\* instant.
InvalidZoneNeverRaises ==
    ZoneCalled /\ ~args.timezone.valid /\ ~isNaN(args.date) =>
      /\ result # Throws
      /\ args.fn \in FormattingCalls => ReturnsUTCRendering

\* formatTimeInTimezone does fall back to the UTC clock
FormatTimeInTimezoneFallsBack ==
    Called("formatTimeInTimezone") /\ ~args.timezone.valid /\ ~isNaN(args.date) =>
      ReturnsUTCRendering

\* the DST scan with an invalid time zone ends with no transition
DSTScanSurvivesInvalidZone ==
    dstPc = "done" /\ ~dstIn.timezone.valid => transitions = <<>>

(***************************************************************************)
(* The bounds of the loops                                                 *)
(***************************************************************************)
\* C20: every scan and search loop ends within a fixed bound for all inputs,
\* also when nothing is ever found: the pass of the daylight scan over the
\* days has run at most yearData.length iterations, the sunrise and sunset
\* scans at most one pass over their window of 366 days, the DST scan at
\* most 401 days, the search for the local time at most 15 iterations and
\* the bisection for a solstice or equinox at most 30.
LoopsBounded ==
    /\ pc \in {"second", "done"} => offset <= Len(yearData)
    /\ hoursOffset <= HOURS_SCAN_DAYS + 1
    /\ dstOffset <= DST_SCAN_DAYS + 1
    /\ localI <= MAX_LOCAL_ITERATIONS
    /\ bisI <= MAX_BISECTIONS

\* a search for a local midnight that never found it, and returned after
\* its 15 iterations
LoopsBoundedWitness ==
    /\ Called("dateAtLocalInTimezone")
    /\ localI = MAX_LOCAL_ITERATIONS
    /\ result # Throws

\* the states in which the other loops have used up their bounds: a scan of
\* the sunrise or sunset hours, or of the time zone, that found nothing, a
\* bisection that never came near the moment, a daylight scan over all days
HoursScanRanOut ==
    /\ args # Null /\ args.fn \in HourScans /\ result # Null
    /\ hoursOffset = HOURS_SCAN_DAYS + 1 /\ hourMilestones = <<>>
DSTScanRanOut == dstPc = "done" /\ dstOffset = DST_SCAN_DAYS + 1 /\ transitions = <<>>
BisectionRanOut == Called("findSolsticeEquinoxMoment") /\ bisI = MAX_BISECTIONS
DaylightScanRanOut == pc = "done" /\ offset = Len(yearData)

(***************************************************************************)
(* computeYearData                                                         *)
(***************************************************************************)
GregorianLeap(year) ==
    (Mod(year, 4) = 0 /\ Mod(year, 100) # 0) \/ Mod(year, 400) = 0

YearDataShape ==
    /\ Len(result.value) = IF GregorianLeap(args.year) THEN 366 ELSE 365
    /\ \A n \in DOMAIN result.value :
         result.value[n] = SolarDayOf([year |-> args.year, ordinal |-> n], args.latitude)

\* C21: for every latitude and year computeYearData(latitude, year) returns
\* exactly 366 entries when the year is a leap year under the Gregorian rule
\* and exactly 365 otherwise, and the entry at index i is the SolarDay of
\* the (i+1)-th calendar day of that year.
YearDataIsTheYear ==
    Called("computeYearData") => YearDataShape

\* the same for the years that new Date does not read as 1900 + year
YearDataIsTheYearFrom100 ==
    Called("computeYearData") /\ ~(0 <= args.year /\ args.year <= 99) => YearDataShape

(***************************************************************************)
(* resolveZone with a missing boundary                                     *)
(***************************************************************************)
\* the minutes of the day that lie in one of the bands
MinutesIn(bands) ==
    { t \in 0..(DAY_HOURS - 1) :
        \E k \in DOMAIN bands : bands[k].morning <= t /\ t < bands[k].evening }

\* a boundary is defined when it is a Date that is not an Invalid Date
Defined(t) == t # Null /\ ~isNaN(t)

\* the boundary, in minutes since the reference midnight
BoundaryOf(t) == InstantOf(t) - args.refMidnight

NoonAbove == args.noonAlt > args.threshold

\* C22: when neither boundary is defined the bands are the full day if the
\* noon altitude is above the threshold and empty otherwise; when exactly
\* one is defined the band runs from the defined boundary to the day edge
\* on the side of the missing one (0 for a missing morning, 24 for a
\* missing evening) if the noon altitude is above the threshold, and is
\* empty otherwise.
MissingBoundariesByNoonAltitude ==
    Called("resolveZone") /\ ~(Defined(args.morningTime) /\ Defined(args.eveningTime)) =>
        LET bands == result.value
            day == 0..(DAY_HOURS - 1)
        IN  /\ Len(bands) <= 1
            /\ \A k \in DOMAIN bands :
                 0 <= bands[k].morning /\ bands[k].morning < bands[k].evening
                   /\ bands[k].evening <= DAY_HOURS
            /\ ~NoonAbove => bands = <<>>
            /\ NoonAbove /\ ~Defined(args.morningTime) /\ ~Defined(args.eveningTime)
                 => bands = <<Band(0, DAY_HOURS)>>
            /\ NoonAbove /\ Defined(args.morningTime)
                 => MinutesIn(bands) = { t \in day : t >= BoundaryOf(args.morningTime) }
            /\ NoonAbove /\ Defined(args.eveningTime)
                 => MinutesIn(bands) = { t \in day : t < BoundaryOf(args.eveningTime) }

\* a rise at 06:00 without a set, with the noon altitude above the
\* threshold, gave the band from 06:00 to the end of the day
MissingBoundariesWitness ==
    /\ Called("resolveZone") /\ NoonAbove
    /\ Defined(args.morningTime) /\ ~Defined(args.eveningTime)
    /\ BoundaryOf(args.morningTime) = 360
    /\ result.value = <<Band(360, DAY_HOURS)>>

(***************************************************************************)
(* the hour milestones of the daylight scan                                *)
(***************************************************************************)
\* getHoursAtOffset(offset), in milliseconds: the daylight of the day that
\* lies offset days after the start date, wrapping past the end of the year
getHoursAtOffset(off) == getDataAtOffset(off).daylight

GenuineHourCrossing(m) ==
    \A h \in 1..23 :
      /\ m.description = MoreThanText(h) =>
           /\ getHoursAtOffset(m.date - 1) < h * HourMs
           /\ h * HourMs <= getHoursAtOffset(m.date)
      /\ m.description = LessThanText(h) =>
           /\ getHoursAtOffset(m.date - 1) >= h * HourMs
           /\ h * HourMs > getHoursAtOffset(m.date)

HasEvent(ms, description) == \E k \in DOMAIN ms : ms[k].description = description

TypeOf(description) ==
    CASE description = PolarNightBeginsText -> "polar_night_begin"
      [] description = PolarNightEndsText -> "polar_night_end"
      [] description = MidnightSunBeginsText -> "midnight_sun_begin"
      [] description = MidnightSunEndsText -> "midnight_sun_end"

PreScanned(description) ==
    \E k \in DOMAIN extremeEvents : extremeEvents[k].type = TypeOf(description)

\* the offset of the first pre-scanned transition of the kind
FirstOffsetOf(description) ==
    LET k == CHOOSE k \in DOMAIN extremeEvents :
                /\ extremeEvents[k].type = TypeOf(description)
                /\ \A j \in 1..(k - 1) : extremeEvents[j].type # TypeOf(description)
    IN  extremeEvents[k].offset

\* the result of the main pass has the one event and not the other, whose
\* kind was pre-scanned: the returned list has the other, at the offset of
\* its first pre-scanned transition
Backfilled(found, missing) ==
    /\ HasEvent(milestones, found) /\ ~HasEvent(milestones, missing)
    /\ PreScanned(missing)
    => \E k \in DOMAIN milestones' :
          milestones'[k] = Milestone(FirstOffsetOf(missing), missing)

\* C24: if after the main pass the result holds only one event of a
\* complementary pair (midnight sun ends / polar night begins, or polar
\* night ends / midnight sun begins) and the pre-scanned extreme events
\* hold a transition of the missing kind, the returned list holds the
\* missing event, dated at the start date plus the offset of the first
\* pre-scanned transition of that kind.
PairedEventsBackfilled ==
    [][ Finish =>
          /\ Backfilled(MidnightSunEndsText, PolarNightBeginsText)
          /\ Backfilled(PolarNightBeginsText, MidnightSunEndsText)
          /\ Backfilled(PolarNightEndsText, MidnightSunBeginsText)
          /\ Backfilled(MidnightSunBeginsText, PolarNightEndsText) ]_vars

\* what the third pass does: beyond the polar circles, the begin of the
\* polar night is added after an end of the midnight sun, and the begin of
\* the midnight sun after an end of the polar night
PairedEventsBackfilledForward ==
    [][ Finish /\ isExtremeLatitude =>
          /\ Backfilled(MidnightSunEndsText, PolarNightBeginsText)
          /\ Backfilled(PolarNightEndsText, MidnightSunBeginsText) ]_vars

(***************************************************************************)
(* the sunrise and sunset hour milestones                                  *)
(***************************************************************************)
HourScanCalled == args # Null /\ args.fn \in HourScans

\* the scan range of the hour
InScanRange(h) ==
    IF args.fn = "findUpcomingSunriseMilestones"
    THEN (IF Abs(args.latitude) * 10 > 665 THEN 0 ELSE 3) <= h /\ h <= 12
    ELSE 15 <= h /\ h <= (IF Abs(args.latitude) * 10 > 665 THEN 23 ELSE 22)

\* the readings of the day before and of the day wrap over midnight
MidnightWrap(prev, curr) ==
    \/ prev > 20 * 60 /\ curr < 4 * 60
    \/ prev < 4 * 60 /\ curr > 20 * 60

\* the milestone is one for the hour h
ForHour(m, h) ==
    \E kind \in {"before", "after"} :
       m.description \in {SunriseText(kind, h), SunsetText(kind, h)}

\* the milestone m, pushed on day m.date.day of the scan, is a crossing of
\* an hour of the range by the readings of that day and of the day before
GenuineClockCrossing(m) ==
    LET prev == args.hours[m.date.day - 1]
        curr == args.hours[m.date.day]
    IN  /\ prev # Null /\ curr # Null
        /\ ~MidnightWrap(prev.num, curr.num)
        /\ \E h \in 0..23 : ForHour(m, h)
        /\ \A h \in 0..23 : ForHour(m, h) =>
             /\ InScanRange(h)
             /\ \/ prev.num >= h * 60 /\ curr.num < h * 60
                \/ prev.num < h * 60 /\ curr.num >= h * 60

\* C25: every sunrise or sunset hour milestone is a genuine crossing: it
\* is emitted for the hour h only if the local readings of the day before
\* and of the day straddle h, h lies in the scan range (sunrise 3..12, or
\* 0..12 when |latitude| > 66.5; sunset 15..22, or 15..23 when
\* |latitude| > 66.5), and the pair is not a midnight wrap (previous > 20
\* and current < 4, or previous < 4 and current > 20).
ClockMilestonesAreCrossings ==
    HourScanCalled =>
        \A k \in DOMAIN hourMilestones : GenuineClockCrossing(hourMilestones[k])

\* a scan has returned a milestone after it passed a day whose readings
\* wrap over midnight
ClockMilestonesWitness ==
    /\ HourScanCalled /\ result # Null
    /\ hourMilestones # <<>>
    /\ \E k \in 0..(hoursOffset - 1) :
         /\ k < hourMilestones[Len(hourMilestones)].date.day
         /\ MidnightWrap(args.hours[k - 1].num, args.hours[k].num)

(***************************************************************************)
(* findSolsticeEquinoxMoment                                               *)
(***************************************************************************)
BisectCalled == args # Null /\ args.fn = "findSolsticeEquinoxMoment"

\* the bracket lies in the window of five days either side, low is not
\* past high, and what is returned lies in the bracket
BracketInWindow ==
    BisectCalled =>
        /\ -5 * DaySec <= bisLow /\ bisLow <= bisHigh /\ bisHigh <= 5 * DaySec
        /\ bisI <= MAX_BISECTIONS
        /\ result # Null =>
             /\ result # Throws
             /\ bisLow <= result.value /\ result.value <= bisHigh
             /\ result.value = BisectMid
             /\ bisI < MAX_BISECTIONS => DiffAt(result.value, args.moment).small

\* a step never widens the bracket: low does not fall, high does not rise
BracketShrinks ==
    BisectCalled => bisLow' >= bisLow /\ bisHigh' <= bisHigh

\* C26: findSolsticeEquinoxMoment never fails: it returns an instant within
\* the initial window of five days either side, the bracket low <= high
\* only ever shrinks, and when the tolerance is not reached in 30
\* iterations the last midpoint is returned.
BisectionNeverFails == []BracketInWindow /\ [][BracketShrinks]_vars

\* the search of a moment that lies outside the window has used its 30
\* iterations and returned the midpoint of a bracket at the edge of it
BisectionWitness ==
    /\ BisectCalled /\ result # Null /\ bisI = MAX_BISECTIONS
    /\ result.value = BisectMid
    /\ bisHigh - bisLow < DaySec
    /\ ~DiffAt(result.value, args.moment).small

(***************************************************************************)
(* getDayOfYear and the index of the year data                             *)
(***************************************************************************)
\* the ordinal of the day in its year, from 1
OrdinalDay == args.day + 1

\* C27: for every calendar day D of the year, as the Date of its local
\* midnight, under every schedule of local UTC offsets, daylight saving
\* time included, getDayOfYear(D) is the ordinal of D in the year, counted
\* from 1, so that the entry of the year data at getDayOfYear(D) - 1 is
\* the entry of D.
DayOfYearIsOrdinal ==
    Called("getDayOfYear") => result.value = OrdinalDay

\* in a zone without daylight saving time it is
DayOfYearIsOrdinalWithoutDST ==
    Called("getDayOfYear") /\ HostWithoutDST => result.value = OrdinalDay

\* and it is never more than the ordinal and never more than one short
DayOfYearAtMostOneShort ==
    Called("getDayOfYear") => result.value \in {OrdinalDay - 1, OrdinalDay}

(***************************************************************************)
(* the length of what the scans return                                     *)
(***************************************************************************)
DaylightScanAtMostCount == pc = "done" => Len(milestones) <= scanIn.count

HourScansAtMostCount ==
    HourScanCalled /\ result # Null => Len(result.value) <= args.count

DSTChangesAtMostCount == dstPc = "done" => Len(transitions) <= dstIn.count

\* C28: each scan returns at most count milestones: the lists returned by
\* findUpcomingDaylightMilestones, findUpcomingSunriseMilestones,
\* findUpcomingSunsetMilestones and findUpcomingDSTChanges have length
\* <= count.
ScansReturnAtMostCount ==
    /\ DaylightScanAtMostCount
    /\ HourScansAtMostCount
    /\ DSTChangesAtMostCount

(***************************************************************************)
(* rotateBands as a rotation of the day                                    *)
(***************************************************************************)
RECURSIVE TotalDuration(_)
TotalDuration(bands) ==
    IF bands = <<>> THEN 0
    ELSE Head(bands).evening - Head(bands).morning + TotalDuration(Tail(bands))

\* the minutes of the day the bands cover, each moved by the shift around
\* the day
ShiftedMinutes(bands, shift) == { Mod(t + shift, DAY_HOURS) : t \in MinutesIn(bands) }

IsCircularRotation(in, shift, out) ==
    /\ \A k \in DOMAIN out :
         0 <= out[k].morning /\ out[k].morning < out[k].evening /\ out[k].evening <= DAY_HOURS
    /\ MinutesIn(out) = ShiftedMinutes(in, shift)
    /\ TotalDuration(out) = TotalDuration(in)

\* C29: rotateBands is a circular rotation of the day: for every band with
\* 0 <= morning < evening <= 24 and every shift a time zone and a
\* longitude can make (about -26 to +26 hours), every band of the output
\* has 0 <= morning < evening <= 24, the output covers exactly the hours
\* of the input shifted modulo 24, and the total duration is unchanged.
RotationIsCircular ==
    Called("rotateBands") => IsCircularRotation(args.bands, args.shift, result.value)

\* every shifted band still has a part in the day and reaches less than a
\* day past either end of it
MeetsTheDay(bands, shift) ==
    \A k \in DOMAIN bands :
       /\ bands[k].evening + shift > 0 /\ bands[k].morning + shift < DAY_HOURS
       /\ bands[k].morning + shift >= -DAY_HOURS /\ bands[k].evening + shift <= 2 * DAY_HOURS

\* for such bands it is a rotation
RotationIsCircularInDay ==
    Called("rotateBands") /\ MeetsTheDay(args.bands, args.shift) =>
        IsCircularRotation(args.bands, args.shift, result.value)

(***************************************************************************)
(* the position of the browser and the user's choice                       *)
(***************************************************************************)
\* the setting is what the user last chose for it, if the user chose
KeepsChoice(f) ==
    chosen[f] # Null =>
        IF f = "timezone" THEN appState[f] = chosen[f].text ELSE appState[f] = chosen[f].num

\* C30: when the app starts without stored settings and asks the browser
\* for its position, an answer that arrives after the user has chosen a
\* latitude, a longitude or a timezone by hand never overwrites the user's
\* choice, whatever the order of the answer and the user's input.
PositionNeverOverwritesChoice ==
    appState # Null =>
        KeepsChoice("latitude") /\ KeepsChoice("longitude") /\ KeepsChoice("timezone")

\* as long as no answer has come, the settings are the user's choices
ChoiceKeptUntilAnswered ==
    appState # Null /\ geolocation # "answered" =>
        KeepsChoice("latitude") /\ KeepsChoice("longitude") /\ KeepsChoice("timezone")

\* with stored settings no position is asked for
NoRequestWithStoredSettings ==
    [][LoadSettings /\ localStorage # Null => geolocation' = geolocation]_vars

====
